---------------------------- MODULE Spec2Model ----------------------------
(***************************************************************************)
(* A model of the trade bookkeeping core of stock-logger-v5:               *)
(*   - TradeCalculator.calculate_metrics  (py_tradeobject/logic.py)        *)
(*   - TradeObject lifecycle and save     (py_tradeobject/core.py)         *)
(*   - HistoryFactory replay              (py_portfolio_state/history.py)  *)
(*                                                                         *)
(* Python floats are modelled as exact rationals [n, d] in lowest terms    *)
(* with d > 0; quantities, prices and commissions are integers.            *)
(* Timestamps are integer clock ticks.                                     *)
(***************************************************************************)
EXTENDS Integers, Sequences, FiniteSets, TLC

(***************************************************************************)
(* Bounds of the model.                                                    *)
(***************************************************************************)
\* At most MaxOrders orders are placed, not counting the order by which
\* set_stop_loss replaces a stop it has just cancelled.
MaxOrders == 2
\* At most MaxFills executions are produced by the broker.
MaxFills == 2
\* get_updates reports each fill at most MaxRepeat times in one call.
MaxRepeat == 2
\* At most MaxFaults broker calls or saves fail in one behaviour.
MaxFaults == 1

(***************************************************************************)
(* Values.                                                                 *)
(***************************************************************************)
\* Python's None for an Optional[float] / Optional[str] field.
None == -1

\* Python truthiness of an Optional[float]: None and 0.0 are both falsy.
Truthy(x) == x # None /\ x # 0

Abs(x) == IF x < 0 THEN -x ELSE x

Sign(x) == IF x < 0 THEN -1 ELSE IF x > 0 THEN 1 ELSE 0

RECURSIVE GCD(_, _)
GCD(a, b) == IF b = 0 THEN a ELSE GCD(b, a % b)

\* The rational n/d (d # 0) in lowest terms with a positive denominator.
Rat(n, d) ==
    LET s == IF d < 0 THEN -1 ELSE 1
        g == GCD(Abs(n), Abs(d))
    IN  [n |-> (s * n) \div g, d |-> (s * d) \div g]

RInt(i) == [n |-> i, d |-> 1]
RAdd(x, y) == Rat(x.n * y.d + y.n * x.d, x.d * y.d)
RSub(x, y) == Rat(x.n * y.d - y.n * x.d, x.d * y.d)
RMul(x, y) == Rat(x.n * y.n, x.d * y.d)
RDiv(x, y) == Rat(x.n * y.d, x.d * y.n)

\* floor(n / d) for d > 0 (TLA+ \div already rounds towards minus infinity).
Floor(n, d) == n \div d

\* Python round(x, k) on the exact value: nearest multiple of 1/scale,
\* ties to even (scale = 10^k).
Round(x, scale) ==
    LET num == x.n * scale
        fl == Floor(num, x.d)
        twice == 2 * (num - fl * x.d)
        up == \/ twice > x.d
              \/ (twice = x.d /\ fl % 2 = 1)
    IN  Rat(IF up THEN fl + 1 ELSE fl, scale)

(***************************************************************************)
(* sorted(xs, key=lambda t: t.timestamp): a stable sort.                   *)
(***************************************************************************)
RECURSIVE InsertByTs(_, _)
InsertByTs(sorted, t) ==
    IF sorted = <<>> THEN <<t>>
    ELSE IF sorted[Len(sorted)].timestamp <= t.timestamp
         THEN Append(sorted, t)
         ELSE Append(InsertByTs(SubSeq(sorted, 1, Len(sorted) - 1), t),
                     sorted[Len(sorted)])

RECURSIVE SortByTs(_)
SortByTs(xs) ==
    IF xs = <<>> THEN <<>>
    ELSE InsertByTs(SortByTs(SubSeq(xs, 1, Len(xs) - 1)), xs[Len(xs)])

(***************************************************************************)
(* TradeCalculator.calculate_metrics: the weighted-average-price pass.     *)
(***************************************************************************)
\* The loop state before the first transaction (logic.py 27-30).
CalcStart == [net_qty |-> 0, avg_price |-> RInt(0),
              realized_pnl |-> RInt(0), total_commissions |-> 0]

\* A variant that realises PnL on the whole position whatever was closed.
TradePnlWholePosition(net_qty, avg_price, price, qty_closed) ==
    IF net_qty > 0
    THEN RMul(RSub(RInt(price), avg_price), RInt(Abs(net_qty)))
    ELSE RMul(RSub(avg_price, RInt(price)), RInt(Abs(net_qty)))

\* PnL realised by closing qty_closed units at price (logic.py 69-72, 87-90).
TradePnl(net_qty, avg_price, price, qty_closed) ==
    IF net_qty > 0
    THEN RMul(RSub(RInt(price), avg_price), RInt(qty_closed))
    ELSE RMul(RSub(avg_price, RInt(price)), RInt(qty_closed))

\* A variant that adds the execution to the position without realising
\* anything and keeps the average price of a position once opened.
CalcStepKeepsAvg(a, t) ==
    [a EXCEPT !.total_commissions = a.total_commissions + t.commission,
              !.net_qty = a.net_qty + t.quantity,
              !.avg_price = IF a.net_qty = 0 THEN RInt(t.price)
                            ELSE a.avg_price]

\* A variant that takes the price of the latest execution as the average.
CalcStepLastPrice(a, t) ==
    [a EXCEPT !.total_commissions = a.total_commissions + t.commission,
              !.net_qty = a.net_qty + t.quantity,
              !.avg_price = RInt(t.price)]

\* One iteration of the loop body (logic.py 34-99).
CalcStep(a, t) ==
    LET comm == a.total_commissions + t.commission
    IN
    IF a.net_qty = 0 THEN
        [a EXCEPT !.total_commissions = comm,
                  !.net_qty = t.quantity,
                  !.avg_price = RInt(t.price)]
    ELSE IF (a.net_qty > 0 /\ t.quantity > 0) \/ (a.net_qty < 0 /\ t.quantity < 0) THEN
        LET total_value == RAdd(RMul(RInt(Abs(a.net_qty)), a.avg_price),
                                RInt(Abs(t.quantity) * t.price))
            net == a.net_qty + t.quantity
        IN  [a EXCEPT !.total_commissions = comm,
                      !.net_qty = net,
                      !.avg_price = RDiv(total_value, RInt(Abs(net)))]
    ELSE IF Abs(t.quantity) <= Abs(a.net_qty) THEN
        LET pnl == TradePnl(a.net_qty, a.avg_price, t.price, Abs(t.quantity))
            net == a.net_qty + t.quantity
        IN  [a EXCEPT !.total_commissions = comm,
                      !.realized_pnl = RAdd(a.realized_pnl, pnl),
                      !.net_qty = net,
                      !.avg_price = IF net = 0 THEN RInt(0) ELSE a.avg_price]
    ELSE
        LET pnl == TradePnl(a.net_qty, a.avg_price, t.price, Abs(a.net_qty))
        IN  [a EXCEPT !.total_commissions = comm,
                      !.realized_pnl = RAdd(a.realized_pnl, pnl),
                      !.net_qty = a.net_qty + t.quantity,
                      !.avg_price = RInt(t.price)]

RECURSIVE CalcFold(_, _)
CalcFold(a, txs) ==
    IF txs = <<>> THEN a ELSE CalcFold(CalcStep(a, Head(txs)), Tail(txs))

\* calculate_metrics(transactions, current_price, initial_risk) (logic.py 13-144)
calculate_metrics(txs, current_price, initial_risk) ==
    LET a == CalcFold(CalcStart, SortByTs(txs))
        unrealized ==
            IF a.net_qty = 0 THEN RInt(0)
            ELSE IF a.net_qty > 0
                 THEN RMul(RSub(RInt(current_price), a.avg_price), RInt(Abs(a.net_qty)))
                 ELSE RMul(RSub(a.avg_price, RInt(current_price)), RInt(Abs(a.net_qty)))
        r == IF initial_risk # 0
             THEN RDiv(RAdd(a.realized_pnl, unrealized), RInt(initial_risk))
             ELSE RInt(0)
    IN  [net_quantity |-> a.net_qty,
         avg_price |-> Round(a.avg_price, 10000),
         unrealized_pnl |-> Round(unrealized, 100),
         realized_pnl |-> Round(a.realized_pnl, 100),
         total_commissions |-> a.total_commissions,
         initial_risk |-> initial_risk,
         r_multiple |-> Round(r, 100)]


(***************************************************************************)
(* The record (TradeState), its file, the broker and the clock.            *)
(***************************************************************************)
VARIABLES
    status,              \* TradeState.status
    transactions,        \* TradeState.transactions
    order_history,       \* TradeState.order_history
    active_orders,       \* TradeState.active_orders: broker order id -> role
    initial_stop_price,  \* TradeState.initial_stop_price
    current_stop_price,  \* TradeState.current_stop_price
    file,                \* the record's JSON file: <<>> (absent) or <<dict>>
    tmp,                 \* the ".tmp" file beside it: <<>> or <<dict>>
    orders,              \* broker: the orders placed, by order id
    fills,               \* broker: the executions, in the order they happened
    carries_order_id,    \* whether the adapter's fills name their order
    now,                 \* the local clock read by datetime.now()
    last,                \* the last lifecycle call and how it ended
    broker_changed,      \* the broker did something since the last refresh
    faults,              \* the failures injected so far
    pc,                  \* where a save() in progress stands
    snapshot,            \* what get_snapshot_at returned last
    trades_dir,          \* the files under HistoryFactory.trades_dir, in walk order
    cache,               \* HistoryFactory._cache
    answer               \* the last HistoryFactory query and what it returned

recordVars == <<status, transactions, order_history, active_orders,
                initial_stop_price, current_stop_price>>
diskVars == <<file, tmp>>
brokerVars == <<orders, fills, carries_order_id>>

vars == <<status, transactions, order_history, active_orders, initial_stop_price,
          current_stop_price, file, tmp, orders, fills, carries_order_id, now,
          last, broker_changed, faults, pc, snapshot, trades_dir, cache, answer>>

\* What the lifecycle calls leave alone: the save is one step of a call, and
\* the history replay reads records without touching them.
portfolioVars == <<trades_dir, cache, answer>>

auxVars == <<pc, snapshot, portfolioVars>>

\* TradeStatus (models.py 14-20)
TradeStatus == {"PLANNED", "OPENING", "OPEN", "CLOSING", "CLOSED", "ARCHIVED"}

\* The broker order ids that can be issued.
OrderIds == 1..(MaxOrders + 1)

\* The record's id, passed to the broker as order_ref.
TradeId == "T1"

\* Inputs of the lifecycle calls and of the broker.
EnterArgs == {[quantity |-> 2, limit_price |-> 100, stop_loss |-> 95],
              [quantity |-> -2, limit_price |-> None, stop_loss |-> None]}
NewStops == {97}
FillPrices == {100}
Commissions == {1}

\* Outcomes of save(): the move onto the destination succeeded (at some
\* retry or in the fallback), the fallback's os.remove raised, or the
\* fallback's os.rename raised after the destination was removed.
SaveOutcomes == {"ok", "remove_failed", "rename_failed"}

\* An empty dict.
EmptyMap == [x \in {} |-> "ENTRY"]
With(f, k, v) == [x \in DOMAIN f \cup {k} |-> IF x = k THEN v ELSE f[x]]
Without(f, S) == [x \in DOMAIN f \ S |-> f[x]]
Min(S) == CHOOSE x \in S : \A y \in S : x <= y
Range(seq) == {seq[i] : i \in DOMAIN seq}

\* The keys of a dict in iteration order.  Broker order ids are issued in
\* increasing order and a dict iterates in insertion order, so this is the
\* ascending order of the ids.
RECURSIVE Keys(_)
Keys(S) == IF S = {} THEN <<>> ELSE <<Min(S)>> \o Keys(S \ {Min(S)})

\* TradeState.to_dict of the in-memory state (models.py 159-172).
to_dict(st, txs, log, ao, isp, csp) ==
    [id |-> TradeId, status |-> st, transactions |-> txs, order_history |-> log,
     active_orders |-> ao, initial_stop_price |-> isp, current_stop_price |-> csp]

\* self._state.to_dict() of the record as it is in memory (core.py 189).
Dict == to_dict(status, transactions, order_history, active_orders,
                initial_stop_price, current_stop_price)

\* TradeObject.metrics (core.py 131-149): current_price falls back to the
\* last execution price, the risk is taken from the first transaction.
metrics(txs, isp) ==
    LET current_price == IF txs # <<>> THEN txs[Len(txs)].price ELSE 0
        initial_risk == IF Truthy(isp) /\ txs # <<>>
                        THEN Abs(txs[1].price - isp) * Abs(txs[1].quantity)
                        ELSE 0
    IN  calculate_metrics(txs, current_price, initial_risk)

\* TradeObject._log_order (core.py 220-241)
log_order_type(limit, stop) ==
    IF Truthy(limit) /\ Truthy(stop) THEN "BRACKET/STP LMT"
    ELSE IF Truthy(limit) THEN "LMT"
    ELSE IF Truthy(stop) THEN "STP"
    ELSE "MKT"

log_order(oid, quantity, limit, stop, ts) ==
    [timestamp |-> ts, order_id |-> oid,
     action |-> IF quantity > 0 THEN "BUY" ELSE "SELL",
     status |-> "SUBMITTED", quantity |-> quantity,
     type |-> log_order_type(limit, stop),
     limit_price |-> limit, stop_price |-> stop]

\* place_order without the correlation reference.
BrokerOrderNoRef(quantity, limit, stop) ==
    [ref |-> "", quantity |-> quantity, limit_price |-> limit,
     stop_price |-> stop, filled |-> 0, live |-> TRUE]

\* broker.place_order: the order the broker holds under a fresh id.
BrokerOrder(quantity, limit, stop) ==
    [ref |-> TradeId, quantity |-> quantity, limit_price |-> limit,
     stop_price |-> stop, filled |-> 0, live |-> TRUE]

NextOid == Len(orders) + 1

\* save() as the last step of a lifecycle call (core.py 181-216): the file
\* and the temp file it leaves, by outcome.
SaveFile(sv, data) ==
    IF sv = "ok" THEN <<data>>
    ELSE IF sv = "remove_failed" THEN file
    ELSE <<>>

SaveTmp(sv, data) == IF sv = "ok" THEN <<>> ELSE <<data>>

\* os.remove can only raise on a destination that exists.
SavePossible(sv) == sv = "remove_failed" => file # <<>>

\* self.save() of the state the call leaves in memory.
Save(sv) ==
    /\ SavePossible(sv)
    /\ file' = SaveFile(sv, Dict')
    /\ tmp' = SaveTmp(sv, Dict')

\* The record of a call for `last`: the operation, the status it found,
\* how it ended, the order ids it sent a cancel for, whether it wrote the
\* file, and (for refresh) whether it repeats a refresh with nothing new at
\* the broker in between.
Call(op, result, cancels, wrote, repeat) ==
    [op |-> op, from |-> status, result |-> result, cancels |-> cancels,
     wrote |-> wrote, repeat |-> repeat]

(***************************************************************************)
(* enter (core.py 243-295).  fail is the number of the broker call that    *)
(* raises (0: none does).                                                  *)
(***************************************************************************)
\* The status check of enter (core.py 251-256): TRUE when it raises.
EnterRejects(s) == s \notin {"PLANNED", "CLOSED"} /\ s # "PLANNED"

\* enter with at most max_orders orders placed at the broker.
EnterBounded(quantity, limit_price, stop_loss, fail, sv, max_orders) ==
    LET oid1 == NextOid
        oid2 == NextOid + 1
        entry_log == log_order(oid1, quantity, limit_price, None, now)
        stop_log == log_order(oid2, -quantity, None, stop_loss, now)
        entry_order == BrokerOrder(quantity, limit_price, None)
        stop_order == BrokerOrder(-quantity, None, stop_loss)
    IN
    /\ UNCHANGED <<transactions, fills, carries_order_id, broker_changed>>
    /\ IF EnterRejects(status) THEN
           \* ValueError: nothing was touched
           /\ fail = 0 /\ sv = "ok"
           /\ last' = Call("enter", "raised", {}, FALSE, FALSE)
           /\ UNCHANGED <<status, order_history, active_orders, initial_stop_price,
                          current_stop_price, diskVars, orders, now>>
       ELSE IF fail = 1 THEN
           \* the entry place_order raises
           /\ sv = "ok"
           /\ last' = Call("enter", "broker_error", {}, FALSE, FALSE)
           /\ UNCHANGED <<status, order_history, active_orders, initial_stop_price,
                          current_stop_price, diskVars, orders, now>>
       ELSE IF ~Truthy(stop_loss) THEN
           /\ fail = 0
           /\ oid1 <= max_orders
           /\ orders' = Append(orders, entry_order)
           /\ order_history' = Append(order_history, entry_log)
           /\ status' = "OPENING"
           /\ active_orders' = With(active_orders, oid1, "ENTRY")
           /\ UNCHANGED <<initial_stop_price, current_stop_price>>
           /\ Save(sv)
           /\ now' = now + 1
           /\ last' = Call("enter", "ok", {}, TRUE, FALSE)
       ELSE IF fail = 2 THEN
           \* the stop place_order raises after the entry was recorded
           /\ sv = "ok"
           /\ oid1 <= max_orders
           /\ orders' = Append(orders, entry_order)
           /\ order_history' = Append(order_history, entry_log)
           /\ status' = "OPENING"
           /\ active_orders' = With(active_orders, oid1, "ENTRY")
           /\ initial_stop_price' = stop_loss
           /\ now' = now + 1
           /\ last' = Call("enter", "broker_error", {}, FALSE, FALSE)
           /\ UNCHANGED <<current_stop_price, diskVars>>
       ELSE
           /\ fail = 0
           /\ oid2 <= max_orders
           /\ orders' = orders \o <<entry_order, stop_order>>
           /\ order_history' = order_history \o <<entry_log, stop_log>>
           /\ status' = "OPENING"
           /\ active_orders' = With(With(active_orders, oid1, "ENTRY"), oid2, "STOP")
           /\ initial_stop_price' = stop_loss
           /\ current_stop_price' = stop_loss
           /\ Save(sv)
           /\ now' = now + 1
           /\ last' = Call("enter", "ok", {}, TRUE, FALSE)

Enter(quantity, limit_price, stop_loss, fail, sv) ==
    EnterBounded(quantity, limit_price, stop_loss, fail, sv, MaxOrders)

(***************************************************************************)
(* set_stop_loss (core.py 297-334)                                         *)
(***************************************************************************)
\* set_stop_loss taking every tracked order for a stop.
StopOrdersAnyRole(ao) == Keys(DOMAIN ao)

\* The tracked orders with role STOP, in iteration order (core.py 307).
StopOrders(ao) == Keys({o \in DOMAIN ao : ao[o] = "STOP"})

SetStopLoss(new_stop_price, fail, sv) ==
    LET to_cancel == StopOrders(active_orders)
        k == Len(to_cancel)
        done == IF fail \in 1..k THEN Range(SubSeq(to_cancel, 1, fail - 1))
                ELSE Range(to_cancel)
        qty_to_stop == -(metrics(transactions, initial_stop_price).net_quantity)
        new_oid == NextOid
    IN
    /\ fail <= k + 1
    /\ UNCHANGED <<status, transactions, initial_stop_price, fills,
                   carries_order_id, broker_changed>>
    \* each old stop is cancelled at the broker and deleted (core.py 308-310)
    /\ active_orders' = IF fail = 0 /\ qty_to_stop # 0
                        THEN With(Without(active_orders, done), new_oid, "STOP")
                        ELSE Without(active_orders, done)
    /\ IF fail \in 1..k THEN
           \* a cancel_order raises in the loop
           /\ sv = "ok"
           /\ last' = Call("set_stop_loss", "broker_error", done, FALSE, FALSE)
           /\ UNCHANGED <<order_history, current_stop_price, diskVars, orders, now>>
       ELSE IF qty_to_stop = 0 THEN
           \* ValueError("No open position to protect.")
           /\ fail = 0 /\ sv = "ok"
           /\ last' = Call("set_stop_loss", "raised", done, FALSE, FALSE)
           /\ UNCHANGED <<order_history, current_stop_price, diskVars, orders, now>>
       ELSE IF fail = k + 1 THEN
           \* place_order raises
           /\ sv = "ok"
           /\ last' = Call("set_stop_loss", "broker_error", done, FALSE, FALSE)
           /\ UNCHANGED <<order_history, current_stop_price, diskVars, orders, now>>
       ELSE
           /\ new_oid <= MaxOrders + k
           /\ orders' = Append(orders, BrokerOrder(qty_to_stop, None, new_stop_price))
           /\ order_history' = Append(order_history,
                  log_order(new_oid, qty_to_stop, None, new_stop_price, now))
           /\ current_stop_price' = new_stop_price
           /\ Save(sv)
           /\ now' = now + 1
           /\ last' = Call("set_stop_loss", "ok", done, TRUE, FALSE)

(***************************************************************************)
(* cancel_order (core.py 336-357)                                          *)
(***************************************************************************)
\* cancel_order without the test on the tracked orders.
CancelOrderUnchecked(order_id, fail) ==
    /\ IF fail = 1 THEN
           last' = Call("cancel_order", "broker_error", {}, FALSE, FALSE)
       ELSE
           last' = Call("cancel_order", "true", {order_id}, FALSE, FALSE)
    /\ UNCHANGED <<recordVars, diskVars, brokerVars, now, broker_changed>>

\* cancel_order dropping the order from tracking at once.
CancelOrderEager(order_id, fail) ==
    /\ IF order_id \notin DOMAIN active_orders THEN
           /\ fail = 0
           /\ last' = Call("cancel_order", "false", {}, FALSE, FALSE)
           /\ UNCHANGED active_orders
       ELSE IF fail = 1 THEN
           /\ last' = Call("cancel_order", "broker_error", {}, FALSE, FALSE)
           /\ UNCHANGED active_orders
       ELSE
           /\ last' = Call("cancel_order", "true", {order_id}, FALSE, FALSE)
           /\ active_orders' = Without(active_orders, {order_id})
    /\ UNCHANGED <<status, transactions, order_history, initial_stop_price,
                   current_stop_price, diskVars, brokerVars, now, broker_changed>>

CancelOrder(order_id, fail) ==
    /\ IF order_id \notin DOMAIN active_orders THEN
           /\ fail = 0
           /\ last' = Call("cancel_order", "false", {}, FALSE, FALSE)
       ELSE IF fail = 1 THEN
           last' = Call("cancel_order", "broker_error", {}, FALSE, FALSE)
       ELSE
           last' = Call("cancel_order", "true", {order_id}, FALSE, FALSE)
    /\ UNCHANGED <<recordVars, diskVars, brokerVars, now, broker_changed>>

(***************************************************************************)
(* close (core.py 359-388)                                                 *)
(***************************************************************************)
\* The flattening order placed with the wrong sign.
CloseOrderSameSide(net) == BrokerOrder(net, None, None)

\* The order close() places: market, sized to flatten (core.py 378-383).
CloseOrder(net) == BrokerOrder(-net, None, None)

\* close() leaving a flat record as it is.
CloseStatusKept(net) == IF net = 0 THEN status ELSE "CLOSING"

\* The status close() sets (core.py 367-368, 385).
CloseStatus(net) == IF net = 0 THEN "CLOSED" ELSE "CLOSING"

Close(fail, sv) ==
    LET net == metrics(transactions, initial_stop_price).net_quantity
        to_cancel == Keys(DOMAIN active_orders)
        k == Len(to_cancel)
        close_oid == NextOid
    IN
    /\ fail <= k + 1
    /\ UNCHANGED <<transactions, order_history, initial_stop_price,
                   current_stop_price, fills, carries_order_id, now, broker_changed>>
    /\ IF net = 0 THEN
           /\ fail = 0
           /\ status' = CloseStatus(net)
           /\ UNCHANGED <<active_orders, orders>>
           /\ Save(sv)
           /\ last' = Call("close", "ALREADY_FLAT", {}, TRUE, FALSE)
       ELSE IF fail \in 1..k THEN
           \* a cancel_order raises in the loop, before active_orders.clear()
           /\ sv = "ok"
           /\ last' = Call("close", "broker_error",
                           Range(SubSeq(to_cancel, 1, fail - 1)), FALSE, FALSE)
           /\ UNCHANGED <<status, active_orders, diskVars, orders>>
       ELSE IF fail = k + 1 THEN
           \* place_order raises after active_orders.clear()
           /\ sv = "ok"
           /\ active_orders' = EmptyMap
           /\ last' = Call("close", "broker_error", Range(to_cancel), FALSE, FALSE)
           /\ UNCHANGED <<status, diskVars, orders>>
       ELSE
           /\ close_oid <= MaxOrders
           /\ orders' = Append(orders, CloseOrder(net))
           /\ status' = CloseStatus(net)
           /\ active_orders' = With(EmptyMap, close_oid, "EXIT")
           /\ Save(sv)
           /\ last' = Call("close", "ok", Range(to_cancel), TRUE, FALSE)

(***************************************************************************)
(* refresh (core.py 399-503)                                               *)
(***************************************************************************)
\* The fill loop (core.py 415-445) over the reported fills: the transactions
\* and log entries appended, and the order ids that got a fill in this call.
\* The log entry of an execution that names its order (core.py 435-445).
FilledLog(fill, ts) ==
    [timestamp |-> ts, order_id |-> fill.order_id,
     action |-> IF fill.quantity > 0 THEN "BUY" ELSE "SELL",
     status |-> "FILLED", quantity |-> fill.quantity,
     type |-> "FILL", limit_price |-> fill.price, stop_price |-> None]

\* The log entry of an order that left the broker's active list without a
\* fill in the same refresh (core.py 474-484).
CancelLog(oid, ts) ==
    [timestamp |-> ts, order_id |-> oid, action |-> "CANCEL",
     status |-> "CANCELLED", quantity |-> 0, type |-> "CANCEL",
     limit_price |-> None, stop_price |-> None]

\* The fill loop without the test on existing_ids.
RECURSIVE IngestFillsNoIdCheck(_, _, _)
IngestFillsNoIdCheck(acc, reported, ts) ==
    IF reported = <<>> THEN acc
    ELSE IngestFillsNoIdCheck(
             [acc EXCEPT !.transactions = Append(@, Head(reported))],
             Tail(reported), ts)

\* The fill loop putting each new execution in front of the list.
RECURSIVE IngestFillsInFront(_, _, _)
IngestFillsInFront(acc, reported, ts) ==
    IF reported = <<>> THEN acc
    ELSE
        LET fill == Head(reported)
            existing_ids == {acc.transactions[i].id : i \in DOMAIN acc.transactions}
            next ==
                IF fill.id \in existing_ids THEN acc
                ELSE IF fill.order_id = None THEN
                    [acc EXCEPT !.transactions = <<fill>> \o @]
                ELSE
                    [acc EXCEPT !.transactions = <<fill>> \o @,
                                !.order_history = Append(@, FilledLog(fill, ts)),
                                !.filled_order_ids = @ \cup {fill.order_id}]
        IN  IngestFillsInFront(next, Tail(reported), ts)

RECURSIVE IngestFills(_, _, _)
IngestFills(acc, reported, ts) ==
    IF reported = <<>> THEN acc
    ELSE
        LET fill == Head(reported)
            existing_ids == {acc.transactions[i].id : i \in DOMAIN acc.transactions}
            filled_log == FilledLog(fill, ts)
            next ==
                IF fill.id \in existing_ids THEN acc
                ELSE IF fill.order_id = None THEN
                    [acc EXCEPT !.transactions = Append(@, fill)]
                ELSE
                    [acc EXCEPT !.transactions = Append(@, fill),
                                !.order_history = Append(@, filled_log),
                                !.filled_order_ids = @ \cup {fill.order_id}]
        IN  IngestFills(next, Tail(reported), ts)

\* The cleanup loop (core.py 458-484) over the tracked ids in iteration order.
\* The cleanup loop logging the cancellation without the `del`.
RECURSIVE CleanupOrdersNoDel(_, _, _, _, _)
CleanupOrdersNoDel(acc, tracked_oids, current_active_oids, filled_order_ids, ts) ==
    IF tracked_oids = <<>> THEN acc
    ELSE
        LET oid == Head(tracked_oids)
            cancel_log == CancelLog(oid, ts)
            next ==
                IF oid \in current_active_oids \/ oid \in filled_order_ids THEN acc
                ELSE [acc EXCEPT !.order_history = Append(@, cancel_log)]
        IN  CleanupOrdersNoDel(next, Tail(tracked_oids), current_active_oids,
                               filled_order_ids, ts)

\* The cleanup loop logging a cancellation for every order it drops.
RECURSIVE CleanupOrdersAlwaysLogs(_, _, _, _, _)
CleanupOrdersAlwaysLogs(acc, tracked_oids, current_active_oids, filled_order_ids, ts) ==
    IF tracked_oids = <<>> THEN acc
    ELSE
        LET oid == Head(tracked_oids)
            cancel_log == CancelLog(oid, ts)
            next ==
                IF oid \in current_active_oids THEN acc
                ELSE [acc EXCEPT !.active_orders = Without(@, {oid}),
                                 !.order_history = Append(@, cancel_log)]
        IN  CleanupOrdersAlwaysLogs(next, Tail(tracked_oids), current_active_oids,
                                    filled_order_ids, ts)

RECURSIVE CleanupOrders(_, _, _, _, _)
CleanupOrders(acc, tracked_oids, current_active_oids, filled_order_ids, ts) ==
    IF tracked_oids = <<>> THEN acc
    ELSE
        LET oid == Head(tracked_oids)
            cancel_log == CancelLog(oid, ts)
            next ==
                IF oid \in current_active_oids THEN acc
                ELSE IF oid \in filled_order_ids THEN
                    [acc EXCEPT !.active_orders = Without(@, {oid})]
                ELSE
                    [acc EXCEPT !.active_orders = Without(@, {oid}),
                                !.order_history = Append(@, cancel_log)]
        IN  CleanupOrders(next, Tail(tracked_oids), current_active_oids,
                          filled_order_ids, ts)

\* The transition logic without the test on the tracked orders.
RefreshStatusIgnoringOrders(s, net_quantity, ao) ==
    IF s = "OPENING" /\ net_quantity # 0 THEN "OPEN"
    ELSE IF s \in {"OPEN", "CLOSING"} /\ net_quantity = 0 THEN "CLOSED"
    ELSE s

\* The transition logic without the step from OPENING to OPEN.
RefreshStatusNeverOpens(s, net_quantity, ao) ==
    IF s \in {"OPEN", "CLOSING"} /\ net_quantity = 0 /\ DOMAIN ao = {}
    THEN "CLOSED"
    ELSE s

\* The transition logic (core.py 491-500).
RefreshStatus(s, net_quantity, ao) ==
    IF s = "OPENING" /\ net_quantity # 0 THEN "OPEN"
    ELSE IF s \in {"OPEN", "CLOSING"} /\ net_quantity = 0 /\ DOMAIN ao = {}
    THEN "CLOSED"
    ELSE s

\* The in-memory state refresh leaves, from the state it found and what
\* get_updates returned.
RefreshResult(st, new_fills, active_order_ids, current_price, ts) ==
    LET a1 == IngestFills([transactions |-> st.transactions,
                           order_history |-> st.order_history,
                           filled_order_ids |-> {}], new_fills, ts)
        a2 == CleanupOrders([active_orders |-> st.active_orders,
                             order_history |-> a1.order_history],
                            Keys(DOMAIN st.active_orders), active_order_ids,
                            a1.filled_order_ids, ts)
        m == calculate_metrics(a1.transactions, current_price, 0)
    IN  [status |-> RefreshStatus(st.status, m.net_quantity, a2.active_orders),
         transactions |-> a1.transactions,
         order_history |-> a2.order_history,
         active_orders |-> a2.active_orders]

\* state_changed (core.py 411, 425, 467, 494, 500)
StateChanged(st, r) ==
    \/ r.transactions # st.transactions
    \/ DOMAIN r.active_orders # DOMAIN st.active_orders
    \/ r.status # st.status

\* seq repeated n times.
RECURSIVE Times(_, _)
Times(seq, n) == IF n = 0 THEN <<>> ELSE seq \o Times(seq, n - 1)

\* broker.get_updates: all the executions of the session so far
\* (adapter.py 99-110), each listed `times` times ...
BrokerReport(times) == Times(fills, times)

\* ... and the order ids the broker holds as active (adapter.py 112-119).
BrokerActive == {o \in DOMAIN orders : orders[o].live}

\* This refresh follows a refresh with nothing new at the broker in between.
Repeats == last.op = "refresh" /\ last.result = "ok" /\ ~broker_changed

Refresh(new_fills, current_price, fail, sv) ==
    LET st == [status |-> status, transactions |-> transactions,
               order_history |-> order_history, active_orders |-> active_orders]
        r == RefreshResult(st, new_fills, BrokerActive, current_price, now)
        changed == StateChanged(st, r)
    IN
    /\ UNCHANGED <<initial_stop_price, current_stop_price, brokerVars>>
    /\ IF fail = 1 THEN
           \* get_updates raises
           /\ sv = "ok"
           /\ last' = Call("refresh", "broker_error", {}, FALSE, FALSE)
           /\ UNCHANGED <<status, transactions, order_history, active_orders,
                          diskVars, now, broker_changed>>
       ELSE
           /\ status' = r.status
           /\ transactions' = r.transactions
           /\ order_history' = r.order_history
           /\ active_orders' = r.active_orders
           /\ IF changed THEN Save(sv) ELSE sv = "ok" /\ UNCHANGED diskVars
           /\ now' = IF order_history' # order_history THEN now + 1 ELSE now
           /\ broker_changed' = FALSE
           /\ last' = Call("refresh", "ok", {}, changed, Repeats)

(***************************************************************************)
(* The broker (an external collaborator): it executes live orders, in one  *)
(* fill or several, and ends them (cancelled on request, expired or        *)
(* rejected).  A fill names its order or not, as the adapter maps it.      *)
(***************************************************************************)
BrokerFill(oid, n, price, commission) ==
    LET o == orders[oid]
        \* the broker stamps an execution with its own clock
        fill == [id |-> Len(fills) + 1, timestamp |-> Len(fills) + 1,
                 quantity |-> Sign(o.quantity) * n, price |-> price,
                 commission |-> commission,
                 order_id |-> IF carries_order_id THEN oid ELSE None]
    IN
    /\ Len(fills) < MaxFills
    /\ o.live
    /\ n \in 1..(Abs(o.quantity) - o.filled)
    /\ fills' = Append(fills, fill)
    /\ orders' = [orders EXCEPT ![oid].filled = @ + n,
                                ![oid].live = (o.filled + n < Abs(o.quantity))]
    /\ broker_changed' = TRUE
    /\ UNCHANGED <<recordVars, diskVars, carries_order_id, now, last, faults>>

BrokerEnd(oid) ==
    /\ orders[oid].live
    /\ orders' = [orders EXCEPT ![oid].live = FALSE]
    /\ broker_changed' = TRUE
    /\ UNCHANGED <<recordVars, diskVars, fills, carries_order_id, now, last, faults>>

\* No save() is in progress.
Idle == [at |-> "idle", i |-> 0, old |-> <<>>]

\* No query was put to the HistoryFactory yet.
NoAnswer == [query |-> "none"]

\* get_snapshot_at was not called yet.
NoSnapshot == [timestamp |-> None, cash |-> 0, positions |-> <<>>,
               active_orders |-> <<>>]

(***************************************************************************)
(* The lifecycle specification: one record created by create_new           *)
(* (core.py 61-71, 87-108), which saves it as PLANNED.                     *)
(***************************************************************************)
Init ==
    /\ status = "PLANNED"
    /\ transactions = <<>>
    /\ order_history = <<>>
    /\ active_orders = EmptyMap
    /\ initial_stop_price = None
    /\ current_stop_price = None
    /\ file = <<to_dict("PLANNED", <<>>, <<>>, EmptyMap, None, None)>>
    /\ tmp = <<>>
    /\ orders = <<>>
    /\ fills = <<>>
    /\ carries_order_id \in BOOLEAN
    /\ now = 1
    /\ last = Call("create_new", "ok", {}, TRUE, FALSE)
    /\ broker_changed = FALSE
    /\ faults = 0
    /\ pc = Idle
    /\ snapshot = NoSnapshot
    /\ trades_dir = <<>>
    /\ cache = <<>>
    /\ answer = NoAnswer

\* A failing broker call or a failing save uses up one of the MaxFaults.
Inject(fail, sv) ==
    LET n == IF fail # 0 \/ sv # "ok" THEN 1 ELSE 0
    IN  /\ faults + n <= MaxFaults
        /\ faults' = faults + n

DoEnter ==
    \E a \in EnterArgs, fail \in 0..2, sv \in SaveOutcomes :
        /\ Inject(fail, sv)
        /\ Enter(a.quantity, a.limit_price, a.stop_loss, fail, sv)
        /\ UNCHANGED auxVars

DoSetStopLoss ==
    \E p \in NewStops, fail \in 0..(MaxOrders + 2), sv \in SaveOutcomes :
        /\ Inject(fail, sv)
        /\ SetStopLoss(p, fail, sv)
        /\ UNCHANGED auxVars

DoCancelOrder ==
    \E oid \in OrderIds, fail \in 0..1 :
        /\ Inject(fail, "ok")
        /\ CancelOrder(oid, fail)
        /\ UNCHANGED auxVars

DoClose ==
    \E fail \in 0..(MaxOrders + 2), sv \in SaveOutcomes :
        /\ Inject(fail, sv)
        /\ Close(fail, sv)
        /\ UNCHANGED auxVars

DoRefresh ==
    \E times \in 1..MaxRepeat, cp \in FillPrices, fail \in 0..1, sv \in SaveOutcomes :
        /\ Inject(fail, sv)
        /\ Refresh(BrokerReport(times), cp, fail, sv)
        /\ UNCHANGED auxVars

DoBrokerFill ==
    \E oid \in DOMAIN orders, n \in 1..2, p \in FillPrices, c \in Commissions :
        /\ BrokerFill(oid, n, p, c)
        /\ UNCHANGED auxVars

DoBrokerEnd ==
    \E oid \in DOMAIN orders :
        /\ BrokerEnd(oid)
        /\ UNCHANGED auxVars

Next ==
    \/ DoEnter
    \/ DoSetStopLoss
    \/ DoCancelOrder
    \/ DoClose
    \/ DoRefresh
    \/ DoBrokerFill
    \/ DoBrokerEnd

Spec == Init /\ [][Next]_vars

\* A record entered, closed while flat and entered again: enter may place
\* up to MaxReentryOrders orders; no call fails.
MaxReentryOrders == 4

NextReentry ==
    \/ \E a \in EnterArgs :
           /\ EnterBounded(a.quantity, a.limit_price, a.stop_loss, 0, "ok",
                           MaxReentryOrders)
           /\ UNCHANGED <<faults, auxVars>>
    \/ DoClose
    \/ DoBrokerFill
    \/ DoRefresh

SpecReentry == Init /\ [][NextReentry]_vars

\* A refresh now would find something to do: new fills or orders gone at
\* the broker, a status to advance, or it would be the first refresh after
\* another call.
RefreshDue ==
    LET st == [status |-> status, transactions |-> transactions,
               order_history |-> order_history, active_orders |-> active_orders]
        r == RefreshResult(st, BrokerReport(1), BrokerActive, 100, now)
    IN  \/ StateChanged(st, r)
        \/ broker_changed
        \/ last # Call("refresh", "ok", {}, FALSE, TRUE)

(***************************************************************************)
(* save() step by step (core.py 181-216), with a crash of the process      *)
(* possible between any two file operations.  pc.old is the record's file  *)
(* as save() found it.                                                     *)
(***************************************************************************)
\* max_retries (core.py 199)
max_retries == 5

\* A record as create_new leaves it, in status s.
BareRecord(s) == to_dict(s, <<>>, <<>>, EmptyMap, None, None)

At(where) == [pc EXCEPT !.at = where]

saveFrame == <<recordVars, brokerVars, now, last, broker_changed, faults, snapshot,
               portfolioVars>>

\* json.dump into the temp file, flushed and fsynced (core.py 189-196).
SaveWriteTmp ==
    /\ pc.at = "idle"
    /\ tmp' = <<Dict>>
    /\ pc' = [at |-> "replace", i |-> 0, old |-> file]
    /\ UNCHANGED <<file, saveFrame>>

\* os.replace(tmp_path, self.filepath) succeeds (core.py 202-203).
SaveReplace ==
    /\ pc.at = "replace"
    /\ file' = tmp
    /\ tmp' = <<>>
    /\ pc' = At("returned")
    /\ UNCHANGED saveFrame

\* os.replace raises OSError: sleep and retry, or go to the final attempt
\* (core.py 204-209).
SaveReplaceRaises ==
    /\ pc.at = "replace"
    /\ pc' = IF pc.i < max_retries - 1
             THEN [pc EXCEPT !.i = @ + 1]
             ELSE At("remove")
    /\ UNCHANGED <<file, tmp, saveFrame>>

\* os.remove of the destination if it exists (core.py 211-212).
SaveRemove ==
    /\ pc.at = "remove"
    /\ file' = <<>>
    /\ pc' = At("rename")
    /\ UNCHANGED <<tmp, saveFrame>>

\* os.remove raises: "CRITICAL: Failed to save" is printed and save()
\* returns (core.py 214-216).
SaveRemoveRaises ==
    /\ pc.at = "remove"
    /\ file # <<>>
    /\ pc' = At("gave_up")
    /\ UNCHANGED <<file, tmp, saveFrame>>

\* os.rename(tmp_path, self.filepath) (core.py 213).
SaveRename ==
    /\ pc.at = "rename"
    /\ file' = tmp
    /\ tmp' = <<>>
    /\ pc' = At("returned")
    /\ UNCHANGED saveFrame

SaveRenameRaises ==
    /\ pc.at = "rename"
    /\ pc' = At("gave_up")
    /\ UNCHANGED <<file, tmp, saveFrame>>

\* The process dies inside save(); the files stay as they are.
Crash ==
    /\ pc.at \in {"replace", "remove", "rename"}
    /\ pc' = At("crashed")
    /\ UNCHANGED <<file, tmp, saveFrame>>

\* save() is called on a record in any status; its file holds what an
\* earlier save left, or does not exist yet (create_new).
InitSave ==
    /\ status \in TradeStatus
    /\ transactions = <<>>
    /\ order_history = <<>>
    /\ active_orders = EmptyMap
    /\ initial_stop_price = None
    /\ current_stop_price = None
    /\ file \in {<<>>} \cup {<<BareRecord(s)>> : s \in TradeStatus}
    /\ tmp = <<>>
    /\ orders = <<>>
    /\ fills = <<>>
    /\ carries_order_id = FALSE
    /\ now = 1
    /\ last = Call("create_new", "ok", {}, TRUE, FALSE)
    /\ broker_changed = FALSE
    /\ faults = 0
    /\ pc = Idle
    /\ snapshot = NoSnapshot
    /\ trades_dir = <<>>
    /\ cache = <<>>
    /\ answer = NoAnswer

NextSave ==
    \/ SaveWriteTmp
    \/ SaveReplace
    \/ SaveReplaceRaises
    \/ SaveRemove
    \/ SaveRemoveRaises
    \/ SaveRename
    \/ SaveRenameRaises
    \/ Crash

SpecSave == InitSave /\ [][NextSave]_vars

(***************************************************************************)
(* HistoryFactory.get_snapshot_at over one loaded record                   *)
(* (history.py 44-179): the position replay.                               *)
(***************************************************************************)
\* At most MaxTx transactions in the record.
MaxTx == 3

TxQuantities == {10, -10, -20}
TxPrices == {100, 90}

\* qty, cost_basis and total_cash before the first transaction
\* (history.py 48, 57-64).
SnapStart == [qty |-> 0, cost_basis |-> RInt(0), total_cash |-> 0,
              trade_active |-> FALSE]

\* The loop body without the test on the cutoff.
SnapStepNoCutoff(a, tx, date) ==
    LET qty == a.qty + tx.quantity
        total_cost == RAdd(RMul(a.cost_basis, RInt(qty - tx.quantity)),
                           RInt(tx.quantity * tx.price))
    IN  [qty |-> qty,
         cost_basis |-> IF tx.quantity > 0
                        THEN IF qty # 0 THEN RDiv(total_cost, RInt(qty))
                             ELSE RInt(0)
                        ELSE a.cost_basis,
         total_cash |-> a.total_cash - (tx.quantity * tx.price) - tx.commission,
         trade_active |-> qty # 0]

\* The loop body leaving the commission out of the cash.
SnapStepNoCommission(a, tx, date) ==
    IF tx.timestamp > date THEN a
    ELSE
        LET qty == a.qty + tx.quantity
            total_cost == RAdd(RMul(a.cost_basis, RInt(qty - tx.quantity)),
                               RInt(tx.quantity * tx.price))
        IN  [qty |-> qty,
             cost_basis |-> IF tx.quantity > 0
                            THEN IF qty # 0 THEN RDiv(total_cost, RInt(qty))
                                 ELSE RInt(0)
                            ELSE a.cost_basis,
             total_cash |-> a.total_cash - (tx.quantity * tx.price),
             trade_active |-> qty # 0]

\* One iteration of the transaction loop (history.py 66-98).
SnapStep(a, tx, date) ==
    IF tx.timestamp > date THEN a
    ELSE
        LET qty == a.qty + tx.quantity
            total_cost == RAdd(RMul(a.cost_basis, RInt(qty - tx.quantity)),
                               RInt(tx.quantity * tx.price))
        IN  [qty |-> qty,
             cost_basis |-> IF tx.quantity > 0
                            THEN IF qty # 0 THEN RDiv(total_cost, RInt(qty))
                                 ELSE RInt(0)
                            ELSE a.cost_basis,
             total_cash |-> a.total_cash - (tx.quantity * tx.price) - tx.commission,
             trade_active |-> qty # 0]

RECURSIVE SnapFold(_, _, _)
SnapFold(a, txs, date) ==
    IF txs = <<>> THEN a ELSE SnapFold(SnapStep(a, Head(txs), date), Tail(txs), date)

\* orders_state[log.order_id] = {...} (history.py 140-144): a dict keeps a
\* key where it was first inserted and takes the new value.
Put(acc, log) ==
    IF \E i \in DOMAIN acc : acc[i].order_id = log.order_id
    THEN [i \in DOMAIN acc |->
             IF acc[i].order_id = log.order_id THEN log ELSE acc[i]]
    ELSE Append(acc, log)

\* The replay without the cutoff.
RECURSIVE OrdersStateNoCutoff(_, _, _)
OrdersStateNoCutoff(acc, logs, date) ==
    IF logs = <<>> THEN acc
    ELSE OrdersStateNoCutoff(Put(acc, Head(logs)), Tail(logs), date)

\* The loop over the sorted log (history.py 131-144): it stops at the first
\* entry later than date.
RECURSIVE OrdersState(_, _, _)
OrdersState(acc, logs, date) ==
    IF logs = <<>> \/ Head(logs).timestamp > date THEN acc
    ELSE OrdersState(Put(acc, Head(logs)), Tail(logs), date)

\* The statuses that end an order (history.py 153).
InactiveStatuses == {"FILLED", "CANCELLED", "REJECTED", "EXPIRED"}

\* PortfolioOrder(...) of an active order's last log entry (history.py 155-170).
PortfolioOrderOf(log) ==
    [trade_id |-> TradeId, order_id |-> log.order_id, action |-> log.action,
     type |-> log.type, qty |-> log.quantity,
     price |-> IF log.limit_price # None THEN log.limit_price
               ELSE IF log.stop_price # None THEN log.stop_price
               ELSE 0]

\* The active orders reconstructed from a record's log (history.py 120-170).
ActiveOrdersAt(log, date) ==
    LET orders_state == OrdersState(<<>>, SortByTs(log), date)
        active == SelectSeq(orders_state,
                            LAMBDA e : e.status \notin InactiveStatuses)
    IN  [i \in DOMAIN active |-> PortfolioOrderOf(active[i])]

\* get_snapshot_at(date): the cash, the positions and the active orders
\* (history.py 44-179); the valuation at the provider's price is left out.
get_snapshot_at(txs, log, date) ==
    LET a == SnapFold(SnapStart, txs, date)
    IN  [timestamp |-> date,
         cash |-> a.total_cash,
         positions |-> IF a.trade_active /\ a.qty # 0
                       THEN <<[trade_id |-> TradeId, quantity |-> a.qty,
                               avg_price |-> a.cost_basis]>>
                       ELSE <<>>,
         active_orders |-> ActiveOrdersAt(log, date)]

histFrame == <<status, active_orders, initial_stop_price,
               current_stop_price, diskVars, brokerVars, last,
               broker_changed, faults, pc, portfolioVars>>

\* The record takes in one more execution, later than those it holds.
HistTransaction(quantity, price) ==
    /\ Len(transactions) < MaxTx
    /\ transactions' = Append(transactions,
           [id |-> Len(transactions) + 1, timestamp |-> Len(transactions) + 1,
            quantity |-> quantity, price |-> price, commission |-> 1,
            order_id |-> None])
    /\ snapshot' = NoSnapshot
    /\ UNCHANGED <<order_history, now, histFrame>>

GetSnapshotAt(date) ==
    /\ snapshot' = get_snapshot_at(transactions, order_history, date)
    /\ UNCHANGED <<transactions, order_history, now, histFrame>>

DoHistTransaction ==
    \E q \in TxQuantities, p \in TxPrices : HistTransaction(q, p)

DoGetSnapshotAt == \E date \in 0..MaxTx : GetSnapshotAt(date)

NextHist ==
    \/ DoHistTransaction
    \/ DoGetSnapshotAt

SpecHist == Init /\ [][NextHist]_vars

(***************************************************************************)
(* The order replay of get_snapshot_at (history.py 120-170) over the log   *)
(* of one record, as the lifecycle writes it: an order's SUBMITTED entry   *)
(* is the first entry of its id, an id is logged CANCELLED at most once    *)
(* (the cleanup drops it from tracking), and every entry is stamped with   *)
(* the clock at the time it is appended.                                   *)
(***************************************************************************)
\* At most MaxLog entries in the record's order log.
MaxLog == 3

LogStatuses == {"SUBMITTED", "FILLED", "CANCELLED"}

\* The entry the lifecycle appends for order oid in the given status.
LogEntry(oid, st, ts) ==
    IF st = "SUBMITTED" THEN log_order(oid, 2, 100, None, ts)
    ELSE IF st = "FILLED"
    THEN FilledLog([quantity |-> 2, price |-> 100, order_id |-> oid], ts)
    ELSE CancelLog(oid, ts)

\* tick: whether the clock moved on since the last entry.
HistOrderLog(oid, st, tick) ==
    /\ Len(order_history) < MaxLog
    /\ st = "SUBMITTED" =>
           \A i \in DOMAIN order_history : order_history[i].order_id # oid
    /\ st = "CANCELLED" =>
           \A i \in DOMAIN order_history :
               order_history[i].order_id = oid =>
                   order_history[i].status # "CANCELLED"
    /\ now' = now + tick
    /\ order_history' = Append(order_history, LogEntry(oid, st, now'))
    /\ snapshot' = NoSnapshot
    /\ UNCHANGED <<transactions, histFrame>>

DoHistOrderLog ==
    \E oid \in OrderIds, st \in LogStatuses, tick \in 0..1 :
        HistOrderLog(oid, st, tick)

NextOrders ==
    \/ DoHistOrderLog
    \/ DoGetSnapshotAt

SpecOrders == Init /\ [][NextOrders]_vars

(***************************************************************************)
(* The HistoryFactory over the record files of a storage root              *)
(* (history.py 10-267).  Times are ticks, TicksPerDay to the day: an       *)
(* instant in the course of the day and, as the last tick of the day, its  *)
(* 23:59:59.999999.                                                        *)
(***************************************************************************)
\* At most MaxFiles files under the storage root.
MaxFiles == 3
\* The queries range over MaxDays days.
MaxDays == 3
TicksPerDay == 2

Ticks == 0..(MaxDays * TicksPerDay - 1)
Tickers == {"A", "B"}
ChartPrices == {0, 110}

\* A TradeTransaction as refresh stores it (models.py 81-101).
Tx(id, ts, quantity, price, oid) ==
    [id |-> id, timestamp |-> ts, quantity |-> quantity, price |-> price,
     commission |-> 1, order_id |-> oid]

\* The dict a record file holds (models.py 159-172).
TradeDict(id, ticker, st, txs, log) ==
    [id |-> id, ticker |-> ticker, status |-> st, transactions |-> txs,
     order_history |-> log]

\* Record files as the lifecycle leaves them: a planned record, a record
\* closed without ever having traded, an open long, a long closed a day
\* later, an archived short, and a flat record held OPEN by a stop order
\* that is still tracked.
TradeDicts ==
    { TradeDict("T1", "A", "PLANNED", <<>>, <<>>),
      TradeDict("T2", "B", "CLOSED", <<>>, <<>>),
      TradeDict("T3", "A", "OPEN",
                <<Tx(1, 2, 10, 100, 1)>>,
                <<log_order(1, 10, 100, None, 1),
                  FilledLog([quantity |-> 10, price |-> 100, order_id |-> 1], 2)>>),
      TradeDict("T4", "B", "CLOSED",
                <<Tx(1, 1, 10, 100, None), Tx(2, 4, -10, 110, None)>>,
                <<log_order(1, 10, None, None, 0), CancelLog(1, 1),
                  log_order(2, -10, None, None, 3), CancelLog(2, 4)>>),
      TradeDict("T5", "A", "ARCHIVED",
                <<Tx(1, 2, -10, 100, 1), Tx(2, 5, 10, 90, 2)>>,
                <<log_order(1, -10, None, None, 2),
                  FilledLog([quantity |-> -10, price |-> 100, order_id |-> 1], 2),
                  log_order(2, 10, None, None, 4),
                  FilledLog([quantity |-> 10, price |-> 90, order_id |-> 2], 5)>>),
      TradeDict("T6", "B", "OPEN",
                <<Tx(1, 3, 10, 100, 1), Tx(2, 4, -10, 90, 3)>>,
                <<log_order(1, 10, None, None, 3), log_order(2, -10, None, 95, 3),
                  FilledLog([quantity |-> 10, price |-> 100, order_id |-> 1], 3),
                  log_order(3, -10, None, None, 4),
                  FilledLog([quantity |-> -10, price |-> 90, order_id |-> 3], 4)>>) }

\* A *.json file that json.load or TradeObject.from_dict raises on.
Malformed == [ok |-> FALSE]

WellFormed(data) == [ok |-> TRUE, data |-> data]

\* load_all_trades adding to the records it holds.
LoadStartKeeps(old) == old

\* self._cache = [] (history.py 23)
LoadStart(old) == <<>>

\* One file of the walk (history.py 29-42): a file that raises is passed
\* over.
LoadFile(loaded, f) ==
    IF f.ok THEN Append(loaded, f.data) ELSE loaded

RECURSIVE LoadFiles(_, _)
LoadFiles(loaded, files) ==
    IF files = <<>> THEN loaded
    ELSE LoadFiles(LoadFile(loaded, Head(files)), Tail(files))

\* load_all_trades (history.py 19-42)
load_all_trades(old, files) == LoadFiles(LoadStart(old), files)

\* PortfolioPosition of a record with a position (history.py 101-115).
PositionOf(state, a, current_price) ==
    LET market_val == a.qty * current_price
    IN  [ticker |-> state.ticker, quantity |-> a.qty, avg_price |-> a.cost_basis,
         current_price |-> current_price, market_value |-> market_val,
         unrealized_pnl |-> RSub(RInt(market_val), RMul(RInt(a.qty), a.cost_basis)),
         trade_id |-> state.id]

\* The first loop of get_snapshot_at over the loaded records
\* (history.py 48-115): total_cash runs on from record to record.
RECURSIVE SnapTrades(_, _, _, _)
SnapTrades(acc, trades, date, prices) ==
    IF trades = <<>> THEN acc
    ELSE
        LET state == Head(trades)
            a == SnapFold([SnapStart EXCEPT !.total_cash = acc.total_cash],
                          state.transactions, date)
            position == PositionOf(state, a, prices[state.ticker])
        IN  SnapTrades([total_cash |-> a.total_cash,
                        positions |-> IF a.trade_active /\ a.qty # 0
                                      THEN Append(acc.positions, position)
                                      ELSE acc.positions],
                       Tail(trades), date, prices)

\* sum(p.market_value for p in positions) (history.py 118)
RECURSIVE SumMarketValue(_)
SumMarketValue(positions) ==
    IF positions = <<>> THEN 0
    ELSE Head(positions).market_value + SumMarketValue(Tail(positions))

\* The second loop (history.py 121-170) over the loaded records.
RECURSIVE SnapOrders(_, _, _)
SnapOrders(acc, trades, date) ==
    IF trades = <<>> THEN acc
    ELSE
        LET state == Head(trades)
            active == ActiveOrdersAt(state.order_history, date)
            listed == [i \in DOMAIN active |->
                          [ticker |-> state.ticker, order_id |-> active[i].order_id,
                           action |-> active[i].action, type |-> active[i].type,
                           qty |-> active[i].qty, price |-> active[i].price,
                           trade_id |-> state.id]]
        IN  SnapOrders(IF state.order_history = <<>> THEN acc ELSE acc \o listed,
                       Tail(trades), date)

\* HistoryFactory.get_snapshot_at (history.py 44-179); prices is what
\* _get_price_at returns for each ticker at that date.
PortfolioSnapshotAt(trades, date, prices) ==
    LET a == SnapTrades([total_cash |-> 0, positions |-> <<>>], trades, date, prices)
    IN  [timestamp |-> date,
         cash |-> a.total_cash,
         equity |-> a.total_cash + SumMarketValue(a.positions),
         positions |-> a.positions,
         active_orders |-> SnapOrders(<<>>, trades, date),
         source |-> "HISTORY"]

\* get_closed_trades taking only CLOSED records.
ClosedStatusesOnlyClosed == {"CLOSED"}

\* The statuses of a finished trade (history.py 190).
ClosedStatuses == {"CLOSED", "ARCHIVED"}

\* (exit_date - entry_date).days (history.py 237)
DaysBetween(entry_date, exit_date) == (exit_date - entry_date) \div TicksPerDay

\* The cash flow of a transaction without its commission.
CashFlowNoCommission(tx) == 0 - (tx.quantity * tx.price)

\* cash_flow (history.py 218)
CashFlow(tx) == 0 - (tx.quantity * tx.price) - tx.commission

\* The loop over sorted_tx (history.py 214-221).
RECURSIVE ResultFold(_, _)
ResultFold(acc, txs) ==
    IF txs = <<>> THEN acc
    ELSE LET tx == Head(txs)
         IN  ResultFold([pnl |-> acc.pnl + CashFlow(tx),
                         total_bought_qty |->
                             IF tx.quantity > 0
                             THEN acc.total_bought_qty + tx.quantity
                             ELSE acc.total_bought_qty],
                        Tail(txs))

\* TradeResult(...) of a record (history.py 204-238).
TradeResultOf(state) ==
    LET sorted_tx == SortByTs(state.transactions)
        entry_tx == sorted_tx[1]
        last_tx == sorted_tx[Len(sorted_tx)]
        a == ResultFold([pnl |-> 0, total_bought_qty |-> 0], sorted_tx)
    IN  [ticker |-> state.ticker,
         direction |-> IF a.total_bought_qty > 0 THEN "LONG" ELSE "SHORT",
         entry_date |-> entry_tx.timestamp, exit_date |-> last_tx.timestamp,
         entry_price |-> entry_tx.price, exit_price |-> last_tx.price,
         qty |-> a.total_bought_qty, pnl_absolute |-> a.pnl,
         pnl_percent |-> 0, r_multiple |-> 0,
         duration_days |-> DaysBetween(entry_tx.timestamp, last_tx.timestamp)]

\* get_closed_trades (history.py 181-239)
RECURSIVE get_closed_trades(_, _, _, _)
get_closed_trades(results, trades, start, end) ==
    IF trades = <<>> THEN results
    ELSE
        LET state == Head(trades)
            sorted_tx == SortByTs(state.transactions)
            last_tx == sorted_tx[Len(sorted_tx)]
            taken ==
                /\ state.status \in ClosedStatuses
                /\ state.transactions # <<>>
                /\ start <= last_tx.timestamp
                /\ last_tx.timestamp <= end
        IN  get_closed_trades(IF taken THEN Append(results, TradeResultOf(state))
                              ELSE results,
                              Tail(trades), start, end)

\* The calendar day of an instant, and the day's 23:59:59.999999
\* (history.py 256).
DayOf(t) == t \div TicksPerDay

EndOfDay(t) == DayOf(t) * TicksPerDay + (TicksPerDay - 1)

\* get_daily_snapshots (history.py 241-267): the loop from current on.
RECURSIVE get_daily_snapshots(_, _, _, _, _)
get_daily_snapshots(results, current, end_date, trades, prices) ==
    IF current > end_date THEN results
    ELSE get_daily_snapshots(
             Append(results, PortfolioSnapshotAt(trades, EndOfDay(current), prices)),
             current + TicksPerDay, end_date, trades, prices)

FileIds == {trades_dir[i].data.id : i \in {j \in DOMAIN trades_dir : trades_dir[j].ok}}

\* A record file appears under the storage root.
WriteTradeFile(data) ==
    /\ Len(trades_dir) < MaxFiles
    /\ data.id \notin FileIds
    /\ trades_dir' = Append(trades_dir, WellFormed(data))
    /\ answer' = NoAnswer
    /\ UNCHANGED cache

\* A file that cannot be loaded appears under the storage root.
WriteMalformedFile ==
    /\ Len(trades_dir) < MaxFiles
    /\ trades_dir' = Append(trades_dir, Malformed)
    /\ answer' = NoAnswer
    /\ UNCHANGED cache

LoadAllTrades ==
    /\ cache' = load_all_trades(cache, trades_dir)
    /\ answer' = NoAnswer
    /\ UNCHANGED trades_dir

\* A query returns its value and leaves the factory as it found it: the
\* model keeps the value until the next operation on the storage root, and
\* puts each query to a factory that holds none.
PortfolioGetSnapshotAt(date, prices) ==
    /\ answer = NoAnswer
    /\ answer' = [query |-> "get_snapshot_at", date |-> date, prices |-> prices,
                  result |-> PortfolioSnapshotAt(cache, date, prices)]
    /\ UNCHANGED <<trades_dir, cache>>

GetClosedTrades(start, end) ==
    /\ answer = NoAnswer
    /\ answer' = [query |-> "get_closed_trades", start |-> start, end |-> end,
                  result |-> get_closed_trades(<<>>, cache, start, end)]
    /\ UNCHANGED <<trades_dir, cache>>

GetDailySnapshots(start, end, prices) ==
    /\ answer = NoAnswer
    /\ answer' = [query |-> "get_daily_snapshots", start |-> start, end |-> end,
                  prices |-> prices,
                  result |-> get_daily_snapshots(<<>>, start, end, cache, prices)]
    /\ UNCHANGED <<trades_dir, cache>>

portfolioFrame == <<recordVars, diskVars, brokerVars, now, last, broker_changed,
                    faults, pc, snapshot>>

DoWriteTradeFile ==
    \E data \in TradeDicts : WriteTradeFile(data) /\ UNCHANGED portfolioFrame

DoWriteMalformedFile == WriteMalformedFile /\ UNCHANGED portfolioFrame

DoLoadAllTrades == LoadAllTrades /\ UNCHANGED portfolioFrame

DoPortfolioGetSnapshotAt ==
    \E date \in Ticks, prices \in [Tickers -> ChartPrices] :
        PortfolioGetSnapshotAt(date, prices) /\ UNCHANGED portfolioFrame

DoGetClosedTrades ==
    \E start \in Ticks, end \in Ticks :
        GetClosedTrades(start, end) /\ UNCHANGED portfolioFrame

DoGetDailySnapshots ==
    \E start \in Ticks, end \in Ticks, prices \in [Tickers -> ChartPrices] :
        GetDailySnapshots(start, end, prices) /\ UNCHANGED portfolioFrame

\* One HistoryFactory over one storage root.
InitPortfolio == Init /\ ~carries_order_id

NextPortfolio ==
    \/ DoGetDailySnapshots
    \/ DoGetClosedTrades
    \/ DoWriteTradeFile
    \/ DoWriteMalformedFile
    \/ DoLoadAllTrades
    \/ DoPortfolioGetSnapshotAt

SpecPortfolio == InitPortfolio /\ [][NextPortfolio]_vars

(***************************************************************************)
(* The metrics of a record as its executions come in                       *)
(* (TradeObject.metrics over TradeCalculator.calculate_metrics).           *)
(***************************************************************************)
\* Signed sizes and prices of the executions a record takes in.
MetricsQuantities == {10, -10, 20, -20, 40, -40}
MetricsPrices == {90, 100, 110, 120}

\* The record takes in one more execution, later than those it holds; a
\* metrics value read before it is out of date.
RecordFill(quantity, price) ==
    /\ Len(transactions) < MaxTx
    /\ transactions' = Append(transactions,
           [id |-> Len(transactions) + 1, timestamp |-> Len(transactions) + 1,
            quantity |-> quantity, price |-> price, commission |-> 1,
            order_id |-> None])
    /\ answer' = NoAnswer
    /\ UNCHANGED <<order_history, status, active_orders, initial_stop_price,
                   current_stop_price, diskVars, brokerVars, now, last,
                   broker_changed, faults, pc, snapshot, trades_dir, cache>>

\* trade.metrics: the caller reads the metrics of the record.
GetMetrics ==
    /\ answer = NoAnswer
    /\ answer' = [query |-> "metrics",
                  result |-> metrics(transactions, initial_stop_price)]
    /\ UNCHANGED <<recordVars, portfolioFrame, trades_dir, cache>>

DoRecordFill ==
    \E q \in MetricsQuantities, p \in MetricsPrices : RecordFill(q, p)

DoGetMetrics == GetMetrics

NextMetrics ==
    \/ DoRecordFill
    \/ DoGetMetrics

SpecMetrics == Init /\ [][NextMetrics]_vars

(***************************************************************************)
(* calculate_metrics on fractional quantities.  Python floats are IEEE 754 *)
(* binary64: a quantity given in tenths of a share is not a dyadic number, *)
(* and net_qty += t.quantity rounds.  The double lying e / (5 * 2^56)      *)
(* above k / 10 is written [k |-> k, e |-> e]; |e| stays small, so the     *)
(* comparisons the code makes on net_qty are decided by (k, e).  Prices    *)
(* are whole numbers; avg_price and the PnL figures are carried exactly on *)
(* the decimal value of the quantities, the reported values being rounded  *)
(* to 4 and 2 places.                                                      *)
(***************************************************************************)
\* float("0.k") and float("-0.k"): the double nearest to k / 10.
Double(k) ==
    LET TenthsErr == <<2, 4, -4, 8, 0, -8, -16, 16, 8>>
    IN  [k |-> k,
         e |-> IF k = 0 THEN 0
               ELSE IF k > 0 THEN TenthsErr[k] ELSE -TenthsErr[-k]]

\* The spacing of the doubles around k / 10 + e / (5 * 2^56), in units of
\* 2^-56, for magnitudes from 1/16 up to 1.
UlpUnit(k, e) ==
    LET m == Abs(k)
        s == IF k < 0 THEN -e ELSE e
    IN  IF m <= 1 THEN 1
        ELSE IF m = 2 THEN 2
        ELSE IF m <= 4 \/ (m = 5 /\ s < 0) THEN 4
        ELSE 8

\* A variant of the addition that leaves out an operand of the opposite
\* sign.
FloatAddSameSign(x, y) ==
    IF Sign(x.k) = Sign(y.k) THEN [k |-> x.k + y.k, e |-> x.e + y.e] ELSE x

\* x + y on doubles: the exact sum rounded to the nearest double, ties to
\* the even mantissa; the difference of two doubles that cancel to within
\* a tenth is exact.
FloatAdd(x, y) ==
    LET k == x.k + y.k
        e == x.e + y.e
        u == UlpUnit(k, e)
        Representable(c) == c % u = 0 /\ (3 * k + c) % 5 = 0
        EvenMantissa(c) == c % (2 * u) = 0 /\ (3 * k + c) % 5 = 0
        Cands == {c \in (e - 5 * u)..(e + 5 * u) : Representable(c)}
        lo == CHOOSE c \in Cands :
                  c <= e /\ \A d \in Cands : d <= e => d <= c
        hi == CHOOSE c \in Cands :
                  c >= e /\ \A d \in Cands : d >= e => d >= c
    IN  IF k = 0 THEN [k |-> 0, e |-> e]
        ELSE [k |-> k,
              e |-> IF e - lo < hi - e THEN lo
                    ELSE IF hi - e < e - lo THEN hi
                    ELSE IF EvenMantissa(lo) THEN lo ELSE hi]

\* One iteration of the loop body on doubles (logic.py 34-99); t.quantity
\* is in tenths of a share.
CalcStepDouble(a, t) ==
    LET q == Double(t.quantity)
        sgn(x) == IF x.k # 0 THEN Sign(x.k) ELSE Sign(x.e)
        mag(x) == IF sgn(x) < 0 THEN <<-x.k, -x.e>> ELSE <<x.k, x.e>>
        leq(x, y) == \/ mag(x)[1] < mag(y)[1]
                     \/ (mag(x)[1] = mag(y)[1] /\ mag(x)[2] <= mag(y)[2])
        dec(x) == Rat(Abs(x.k), 10)
        net == FloatAdd(a.net_qty, q)
        comm == a.total_commissions + t.commission
        pnl(closed) ==
            IF sgn(a.net_qty) > 0
            THEN RMul(RSub(RInt(t.price), a.avg_price), closed)
            ELSE RMul(RSub(a.avg_price, RInt(t.price)), closed)
    IN
    IF a.net_qty = Double(0) THEN
        [a EXCEPT !.total_commissions = comm,
                  !.net_qty = q,
                  !.avg_price = RInt(t.price)]
    ELSE IF sgn(a.net_qty) = sgn(q) THEN
        LET total_value == RAdd(RMul(dec(a.net_qty), a.avg_price),
                                RMul(dec(q), RInt(t.price)))
        IN  [a EXCEPT !.total_commissions = comm,
                      !.net_qty = net,
                      !.avg_price = RDiv(total_value, dec(net))]
    ELSE IF leq(q, a.net_qty) THEN
        [a EXCEPT !.total_commissions = comm,
                  !.realized_pnl = RAdd(a.realized_pnl, pnl(dec(q))),
                  !.net_qty = IF net.k = 0 THEN Double(0) ELSE net,
                  !.avg_price = IF net.k = 0 THEN RInt(0) ELSE a.avg_price]
    ELSE
        [a EXCEPT !.total_commissions = comm,
                  !.realized_pnl = RAdd(a.realized_pnl, pnl(dec(a.net_qty))),
                  !.net_qty = net,
                  !.avg_price = RInt(t.price)]

RECURSIVE CalcFoldDouble(_, _)
CalcFoldDouble(a, txs) ==
    IF txs = <<>> THEN a
    ELSE CalcFoldDouble(CalcStepDouble(a, Head(txs)), Tail(txs))

\* calculate_metrics(transactions, current_price) on quantities in tenths
\* (logic.py 13-144); net_quantity is reported in tenths.
calculate_metrics_tenths(txs, current_price) ==
    LET a == CalcFoldDouble([net_qty |-> Double(0), avg_price |-> RInt(0),
                             realized_pnl |-> RInt(0),
                             total_commissions |-> 0], SortByTs(txs))
        long == a.net_qty.k > 0 \/ (a.net_qty.k = 0 /\ a.net_qty.e > 0)
        unrealized ==
            IF a.net_qty = Double(0) THEN RInt(0)
            ELSE IF long
                 THEN RMul(RSub(RInt(current_price), a.avg_price),
                           Rat(Abs(a.net_qty.k), 10))
                 ELSE RMul(RSub(a.avg_price, RInt(current_price)),
                           Rat(Abs(a.net_qty.k), 10))
    IN  [net_quantity |-> a.net_qty.k,
         avg_price |-> Round(a.avg_price, 10000),
         unrealized_pnl |-> Round(unrealized, 100),
         realized_pnl |-> Round(a.realized_pnl, 100),
         total_commissions |-> a.total_commissions,
         initial_risk |-> 0,
         r_multiple |-> RInt(0)]

\* refresh recomputes the metrics at the price it was given (core.py 489).
GetMetricsAt(current_price) ==
    /\ answer = NoAnswer
    /\ answer' = [query |-> "metrics_at", current_price |-> current_price,
                  result |-> calculate_metrics_tenths(transactions,
                                                      current_price)]
    /\ UNCHANGED <<recordVars, portfolioFrame, trades_dir, cache>>

\* Executions of up to three tenths of a share, bought or sold; the price
\* given to refresh is 0 or 105.
NextFractional ==
    \/ \E k \in {1, 2, 3, -1, -2, -3}, p \in MetricsPrices : RecordFill(k, p)
    \/ \E current_price \in {0, 105} : GetMetricsAt(current_price)

SpecFractional == Init /\ [][NextFractional]_vars

(***************************************************************************)
(* days_held and the clock.  Timestamps and the clock count days here.     *)
(***************************************************************************)
\* The clock is read up to day MaxClock.
MaxClock == 4

\* days_held (logic.py 115-133): from the first transaction to the last one
\* when flat, else to datetime.now().
DaysHeld(txs, net_qty, clock) ==
    IF txs = <<>> THEN 0
    ELSE LET sorted_tx == SortByTs(txs)
             first_entry_time == sorted_tx[1].timestamp
             last_tx_time == sorted_tx[Len(sorted_tx)].timestamp
             end_date == IF net_qty = 0 THEN last_tx_time ELSE clock
         IN  end_date - first_entry_time

\* trade.metrics read at the present time, days_held included; the
\* executions held were made before the call.
GetMetricsNow ==
    /\ \A i \in DOMAIN transactions : transactions[i].timestamp <= now
    /\ LET m == metrics(transactions, initial_stop_price)
       IN  answer' = [query |-> "metrics_now", result |-> m,
                      days_held |-> DaysHeld(transactions, m.net_quantity,
                                             now)]
    /\ UNCHANGED <<recordVars, portfolioFrame, trades_dir, cache>>

\* A day passes.
ClockTick ==
    /\ now < MaxClock
    /\ now' = now + 1
    /\ UNCHANGED <<recordVars, diskVars, brokerVars, last, broker_changed,
                   faults, auxVars>>

NextClock ==
    \/ \E q \in TxQuantities, p \in TxPrices : RecordFill(q, p)
    \/ GetMetricsNow
    \/ ClockTick

SpecClock == Init /\ [][NextClock]_vars

(***************************************************************************)
(* Properties of the lifecycle.                                            *)
(***************************************************************************)
TxIds(txs) == {txs[i].id : i \in DOMAIN txs}

NetQuantity(txs) == calculate_metrics(txs, 0, 0).net_quantity

\* A refresh that got its update from the broker and ran to its end.
RefreshDone == last'.op = "refresh" /\ last'.result = "ok" /\ DoRefresh

\* C1: in every status other than PLANNED, enter raises, places no broker
\* order and leaves status, transactions, order log, tracked orders and the
\* file as they were.
C1_EnterOnlyFromPlanned ==
    [][(DoEnter /\ status # "PLANNED") =>
          /\ last'.result = "raised"
          /\ orders' = orders
          /\ UNCHANGED <<status, transactions, order_history, active_orders, file>>]_vars

\* C2: refresh sets the status to CLOSED only from OPEN or CLOSING, with a
\* recomputed net quantity of zero and no order tracked after the cleanup;
\* with a net quantity of zero and an order still tracked, the reported
\* fills are in the transactions and the status is left as it was.
C2_ClosedOnlyWhenFlatAndClean ==
    [][RefreshDone =>
          /\ (status' = "CLOSED" /\ status # "CLOSED") =>
                 /\ status \in {"OPEN", "CLOSING"}
                 /\ NetQuantity(transactions') = 0
                 /\ DOMAIN active_orders' = {}
          /\ (NetQuantity(transactions') = 0 /\ DOMAIN active_orders' # {}) =>
                 /\ TxIds(fills) \subseteq TxIds(transactions')
                 /\ status' = status]_vars

\* A refresh found the position flat with an order still tracked.
C2_Witness ==
    /\ last.op = "refresh" /\ last.result = "ok" /\ last.wrote
    /\ status = "OPEN"
    /\ Len(transactions) = 2
    /\ NetQuantity(transactions) = 0
    /\ DOMAIN active_orders # {}

\* C3: no two transactions of the record share an id, however often a fill
\* is reported, in one refresh or across refreshes.
C3_TransactionIdsUnique ==
    \A i, j \in DOMAIN transactions :
        transactions[i].id = transactions[j].id => i = j

\* Two fills were taken in and a refresh reported them again.
C3_Witness ==
    /\ last.op = "refresh" /\ last.result = "ok" /\ last.repeat
    /\ Len(transactions) = 2

\* C4: a refresh that follows a refresh, with the same fills and the same
\* active ids at the broker, appends no transaction and no log entry,
\* changes neither the status nor the tracked orders, and writes no file.
C4_RepeatedRefreshChangesNothing ==
    [][(RefreshDone /\ Repeats) =>
          /\ UNCHANGED <<transactions, order_history, status, active_orders,
                         file, tmp>>
          /\ ~last'.wrote]_vars

\* A repeated refresh of a record that had taken in a fill and had dropped
\* an order from tracking.
C4_Witness ==
    /\ last.op = "refresh" /\ last.result = "ok" /\ last.repeat /\ ~last.wrote
    /\ transactions # <<>>
    /\ \E e \in Range(order_history) : e.status = "CANCELLED"

\* The process died inside a save() that had found the record's file.
CrashedInSave == pc.at = "crashed" /\ pc.old # <<>>

\* C5: after a crash at any step of save() the record's file exists and
\* holds the complete old state or the complete new state.
C5_CrashLeavesOldOrNew ==
    CrashedInSave => (file = pc.old \/ file = <<Dict>>)

\* C6: when a broker call raises inside enter, set_stop_loss or close, the
\* status, the tracked orders, the order log and the stop prices are what
\* they were before the call.
C6_BrokerFailureLeavesMemory ==
    [][((DoEnter \/ DoSetStopLoss \/ DoClose) /\ last'.result = "broker_error") =>
          UNCHANGED <<status, active_orders, order_history, initial_stop_price,
                      current_stop_price>>]_vars

\* C7: a call whose save could not move the temp file onto the record's
\* file does not return normally.
C7_SaveFailureReported ==
    (last.wrote /\ tmp # <<>>) => last.result \in {"raised", "broker_error"}

\* The log entries of one order, in log order.
EntriesOf(oid) == SelectSeq(order_history, LAMBDA e : e.order_id = oid)

TerminalStatuses == {"FILLED", "CANCELLED", "REJECTED", "EXPIRED"}

\* C8: for every order id the log entries have non-decreasing timestamps,
\* begin with SUBMITTED, and hold nothing after a terminal entry, so no id
\* has two terminal entries.
C8_OrderLogWellFormed ==
    \A oid \in OrderIds :
        LET es == EntriesOf(oid)
        IN  es # <<>> =>
                /\ es[1].status = "SUBMITTED"
                /\ \A i \in 1..(Len(es) - 1) :
                       /\ es[i].timestamp <= es[i + 1].timestamp
                       /\ es[i].status \notin TerminalStatuses

\* C9: a record in status CLOSED or ARCHIVED stays in that status under
\* enter, set_stop_loss, cancel_order, close and refresh.
C9_ClosedAndArchivedTerminal ==
    [][(status \in {"CLOSED", "ARCHIVED"}) => (status' = status)]_vars

\* The transactions with a timestamp up to the cutoff.
TxUpTo(txs, date) == SelectSeq(txs, LAMBDA t : t.timestamp <= date)

\* C10: the net quantity and average price get_snapshot_at(T) reports for a
\* record are the net_quantity and avg_price of calculate_metrics on the
\* record's transactions with timestamp <= T.
C10_SnapshotAgreesWithMetrics ==
    snapshot # NoSnapshot =>
        LET m == calculate_metrics(TxUpTo(transactions, snapshot.timestamp), 0, 0)
        IN  /\ (snapshot.positions # <<>>) <=> (m.net_quantity # 0)
            /\ \A i \in DOMAIN snapshot.positions :
                   /\ snapshot.positions[i].quantity = m.net_quantity
                   /\ snapshot.positions[i].avg_price = m.avg_price

\* The log entries of order oid with a timestamp up to date, by position.
LoggedUpTo(oid, date) ==
    {i \in DOMAIN order_history :
        /\ order_history[i].order_id = oid
        /\ order_history[i].timestamp <= date}

\* The latest of them in timestamp order (of equal timestamps, the one
\* logged last).
LatestUpTo(oid, date) ==
    CHOOSE i \in LoggedUpTo(oid, date) :
        \A j \in LoggedUpTo(oid, date) :
            \/ order_history[j].timestamp < order_history[i].timestamp
            \/ (order_history[j].timestamp = order_history[i].timestamp /\ j <= i)

\* C11: get_snapshot_at(T) lists an order id as active exactly when the
\* record's log has an entry of that id at or before T and the latest such
\* entry has a status outside FILLED, CANCELLED, REJECTED, EXPIRED; an
\* active id is listed once.
C11_ActiveOrdersAreLatestOpenStatus ==
    snapshot # NoSnapshot =>
        \A oid \in OrderIds :
            LET listed == {k \in DOMAIN snapshot.active_orders :
                              snapshot.active_orders[k].order_id = oid}
                T == snapshot.timestamp
            IN  /\ Cardinality(listed) <= 1
                /\ (listed # {}) <=>
                       /\ LoggedUpTo(oid, T) # {}
                       /\ order_history[LatestUpTo(oid, T)].status
                              \notin TerminalStatuses

\* A snapshot lists an order between its SUBMITTED and its CANCELLED entry.
C11_Witness ==
    /\ snapshot # NoSnapshot
    /\ \E k \in DOMAIN snapshot.active_orders, i \in DOMAIN order_history :
           /\ order_history[i].order_id = snapshot.active_orders[k].order_id
           /\ order_history[i].status = "CANCELLED"
           /\ order_history[i].timestamp > snapshot.timestamp

\* The record's file holds the state the call left in memory or, when the
\* move of the temp file failed (C7), the temp file does.
SavedNewState == file' = <<Dict'>> \/ tmp' = <<Dict'>>

SetStopLossCall(p) ==
    \E fail \in 0..(MaxOrders + 2), sv \in SaveOutcomes :
        /\ Inject(fail, sv)
        /\ SetStopLoss(p, fail, sv)
        /\ UNCHANGED auxVars

\* The tracked order ids with role STOP.
StopIds(ao) == {o \in DOMAIN ao : ao[o] = "STOP"}

C15_SetStopLossNeedsPosition ==
    [][(DoSetStopLoss /\ NetQuantity(transactions) = 0) =>
          /\ last'.result # "ok"
          /\ orders' = orders
          /\ last'.cancels = {}
          /\ UNCHANGED <<active_orders, order_history, current_stop_price,
                         status>>]_vars

\* cancel_order(oid) as one call.
CancelOrderCall(oid) ==
    \E fail \in 0..1 :
        /\ Inject(fail, "ok")
        /\ CancelOrder(oid, fail)
        /\ UNCHANGED auxVars

\* C16: cancel_order(id) with an id that is not tracked returns False, does
\* not raise, calls the broker for nothing and changes nothing in the
\* record.
C16_CancelUnknownOrder ==
    [][\A oid \in OrderIds :
          (CancelOrderCall(oid) /\ oid \notin DOMAIN active_orders) =>
              /\ last'.result = "false"
              /\ last'.cancels = {}
              /\ faults' = faults
              /\ UNCHANGED <<recordVars, diskVars, brokerVars>>]_vars

\* cancel_order was refused for an id while another order was tracked.
C16_Witness ==
    /\ last.op = "cancel_order" /\ last.result = "false"
    /\ DOMAIN active_orders # {}

\* cancel_order(oid) on a tracked id sends one cancel and leaves the
\* tracked orders, the order log and the status alone.
CancelTrackedFrame(oid) ==
    (oid \in DOMAIN active_orders /\ last'.result # "broker_error"
                                  /\ CancelOrderCall(oid)) =>
        /\ last'.result = "true"
        /\ last'.cancels = {oid}
        /\ UNCHANGED <<active_orders, order_history, status>>

\* A refresh to which the broker no longer reports oid as active.
RefreshWithout(oid) == RefreshDone /\ oid \notin BrokerActive

\* C17 as claimed: cancel_order(id) on a tracked id sends one cancel and
\* leaves the tracked orders, the log and the status alone, and the id is
\* tracked until a refresh to which the broker no longer reports it (here:
\* the next call that drops it and returns normally is such a refresh).
C17_CancelledStaysUntilRefresh ==
    [][\A oid \in OrderIds :
          /\ CancelTrackedFrame(oid)
          /\ (/\ last.op = "cancel_order" /\ oid \in last.cancels
              /\ oid \in DOMAIN active_orders
              /\ oid \notin DOMAIN active_orders'
              /\ last'.result \notin {"raised", "broker_error"})
                 => RefreshWithout(oid)]_vars

\* C17 as amended: cancel_order(id) on a tracked id sends one cancel and
\* leaves the tracked orders, the log and the status alone; a tracked id
\* leaves the tracked orders only in a refresh to which the broker no longer
\* reports it, in close(), or in set_stop_loss if its role is STOP, and a
\* refresh keeps every id the broker reports.
C17_CancelledStaysUntilDropped ==
    [][\A oid \in OrderIds :
          /\ CancelTrackedFrame(oid)
          /\ (oid \in DOMAIN active_orders /\ oid \notin DOMAIN active_orders') =>
                 \/ RefreshWithout(oid)
                 \/ DoClose
                 \/ DoSetStopLoss /\ active_orders[oid] = "STOP"
          /\ (oid \in DOMAIN active_orders /\ oid \in BrokerActive /\ RefreshDone) =>
                 oid \in DOMAIN active_orders']_vars

\* cancel_order sent a cancel for an order that is still tracked.
C17_Witness ==
    /\ last.op = "cancel_order" /\ last.result = "true"
    /\ last.cancels # {}
    /\ last.cancels \subseteq DOMAIN active_orders


NewTransactions == SubSeq(transactions', Len(transactions) + 1, Len(transactions'))

NewLogEntries == SubSeq(order_history', Len(order_history) + 1, Len(order_history'))

\* The reported fills whose id the record does not hold yet.
IngestedIds == TxIds(fills) \ TxIds(transactions)

\* C19: a refresh appends, for every reported fill whose id is not yet
\* present, exactly one transaction and exactly one FILLED log entry, whether
\* the fill names its order or not.
C19_EveryFillLogged ==
    [][RefreshDone =>
          /\ Len(NewTransactions) = Cardinality(IngestedIds)
          /\ TxIds(NewTransactions) = IngestedIds
          /\ Cardinality({i \in DOMAIN NewLogEntries :
                              NewLogEntries[i].status = "FILLED"})
                 = Cardinality(IngestedIds)]_vars

\* The CANCELLED entries a step appended to the log for oid.
NewCancelEntries(oid) ==
    {i \in DOMAIN NewLogEntries : /\ NewLogEntries[i].status = "CANCELLED"
                                  /\ NewLogEntries[i].order_id = oid}

\* A fill taken in by this step names oid as its order.
NewlyFilled(oid) ==
    \E i \in DOMAIN NewTransactions : NewTransactions[i].order_id = oid

\* C20: a refresh drops every tracked order id that the broker does not
\* report as active, and appends a CANCELLED entry for a tracked id exactly
\* when it drops the id and no fill taken in by the same refresh names it.
C20_DroppedOrdersLogged ==
    [][RefreshDone =>
          \A oid \in DOMAIN active_orders :
              /\ oid \notin BrokerActive => oid \notin DOMAIN active_orders'
              /\ Cardinality(NewCancelEntries(oid)) =
                     IF oid \notin BrokerActive /\ ~NewlyFilled(oid) THEN 1 ELSE 0]_vars

\* A refresh took in the fill that ended an order and dropped the order
\* without a CANCELLED entry: the log ends with the FILLED entry.
C20_Witness ==
    /\ last.op = "refresh" /\ last.result = "ok" /\ last.wrote
    /\ order_history # <<>>
    /\ LET e == order_history[Len(order_history)]
       IN  /\ e.status = "FILLED"
           /\ e.order_id \notin DOMAIN active_orders
           /\ ~orders[e.order_id].live

\* enter(a.quantity, a.limit_price, a.stop_loss) was called.
EnterCall(a) ==
    \E fail \in 0..2, sv \in SaveOutcomes :
        /\ Inject(fail, sv)
        /\ Enter(a.quantity, a.limit_price, a.stop_loss, fail, sv)
        /\ UNCHANGED auxVars

\* The log entries a step appended for order oid.
NewEntriesFor(oid) ==
    {i \in DOMAIN NewLogEntries : NewLogEntries[i].order_id = oid}

\* C21: an enter(q, limit, stop_loss) that succeeds on a PLANNED record
\* leaves the status OPENING, tracks the entry order as ENTRY and has logged
\* one SUBMITTED entry of quantity q for it; with a stop_loss it has also
\* placed a stop order of quantity -q, tracks it as STOP, has logged a
\* second SUBMITTED entry of quantity -q with that stop price and has set
\* current_stop_price; every order placed carries the record's id.
C21_EnterPlacesEntryAndStop ==
    [][\A a \in EnterArgs :
          (status = "PLANNED" /\ last'.op = "enter" /\ last'.result = "ok"
                              /\ EnterCall(a)) =>
              LET oid1 == Len(orders) + 1
                  oid2 == Len(orders) + 2
                  placed == IF a.stop_loss = None THEN 1 ELSE 2
              IN  /\ status' = "OPENING"
                  /\ Len(orders') = Len(orders) + placed
                  /\ SubSeq(orders', 1, Len(orders)) = orders
                  /\ orders'[oid1].quantity = a.quantity
                  /\ orders'[oid1].limit_price = a.limit_price
                  /\ orders'[oid1].ref = TradeId
                  /\ Len(NewLogEntries) = placed
                  /\ SubSeq(order_history', 1, Len(order_history)) = order_history
                  /\ NewLogEntries[1].order_id = oid1
                  /\ NewLogEntries[1].status = "SUBMITTED"
                  /\ NewLogEntries[1].quantity = a.quantity
                  /\ IF a.stop_loss = None THEN
                         /\ active_orders' = With(active_orders, oid1, "ENTRY")
                         /\ current_stop_price' = current_stop_price
                     ELSE
                         /\ active_orders' =
                                With(With(active_orders, oid1, "ENTRY"), oid2, "STOP")
                         /\ orders'[oid2].quantity = -a.quantity
                         /\ orders'[oid2].stop_price = a.stop_loss
                         /\ orders'[oid2].ref = TradeId
                         /\ NewLogEntries[2].order_id = oid2
                         /\ NewLogEntries[2].status = "SUBMITTED"
                         /\ NewLogEntries[2].quantity = -a.quantity
                         /\ NewLogEntries[2].stop_price = a.stop_loss
                         /\ current_stop_price' = a.stop_loss]_vars

\* enter with a stop loss succeeded on a PLANNED record.
C21_Witness ==
    /\ last.op = "enter" /\ last.result = "ok" /\ last.from = "PLANNED"
    /\ status = "OPENING"
    /\ current_stop_price # None
    /\ \E o \in DOMAIN active_orders : active_orders[o] = "STOP"

\* TradeState.from_dict (models.py 174-198): the state a stored record
\* loads as.
from_dict(data) ==
    [status |-> data.status, transactions |-> data.transactions,
     order_history |-> data.order_history, active_orders |-> data.active_orders,
     initial_stop_price |-> data.initial_stop_price,
     current_stop_price |-> data.current_stop_price]

\* The record as it is in memory.
TradeState ==
    [status |-> status, transactions |-> transactions,
     order_history |-> order_history, active_orders |-> active_orders,
     initial_stop_price |-> initial_stop_price,
     current_stop_price |-> current_stop_price]

\* The last lifecycle call returned a value.
ReturnedNormally == last.result \notin {"raised", "broker_error"}

\* C22: once a lifecycle call has returned normally, the record's file
\* holds the record's state as it is in memory, and loading the file gives
\* that state.
C22_FileHoldsMemory ==
    ReturnedNormally =>
        /\ file = <<Dict>>
        /\ from_dict(file[1]) = TradeState

(***************************************************************************)
(* Properties of the HistoryFactory.                                       *)
(***************************************************************************)
\* The sum of f over the finite set S.
RECURSIVE SumOver(_, _)
SumOver(f, S) ==
    IF S = {} THEN 0
    ELSE LET x == CHOOSE y \in S : TRUE IN f[x] + SumOver(f, S \ {x})

\* The cash flow of a record's transactions up to T.
CashUpTo(txs, T) ==
    SumOver([i \in DOMAIN txs |->
                IF txs[i].timestamp <= T
                THEN 0 - (txs[i].quantity * txs[i].price) - txs[i].commission
                ELSE 0], DOMAIN txs)

\* The quantity a record's transactions up to T add up to.
QuantityUpTo(txs, T) ==
    SumOver([i \in DOMAIN txs |->
                IF txs[i].timestamp <= T THEN txs[i].quantity ELSE 0], DOMAIN txs)

SnapshotAnswered == answer.query = "get_snapshot_at"

\* C23: the cash of get_snapshot_at(T) is the sum, over the loaded records
\* and their transactions up to T, of -(quantity * price) - commission; a
\* record has a position in the snapshot exactly when its quantities up to
\* T do not add up to zero, and then one; the equity is the cash plus the
\* market values of the positions.
C23_SnapshotCashAndEquity ==
    SnapshotAnswered =>
        LET r == answer.result
            T == answer.date
            held == {i \in DOMAIN cache : QuantityUpTo(cache[i].transactions, T) # 0}
        IN  /\ r.cash = SumOver([i \in DOMAIN cache |->
                                    CashUpTo(cache[i].transactions, T)], DOMAIN cache)
            /\ Len(r.positions) = Cardinality(held)
            /\ \A i \in DOMAIN cache :
                   Cardinality({k \in DOMAIN r.positions :
                                   r.positions[k].trade_id = cache[i].id})
                       = IF i \in held THEN 1 ELSE 0
            /\ r.equity = r.cash + SumOver([k \in DOMAIN r.positions |->
                                               r.positions[k].market_value],
                                           DOMAIN r.positions)

\* A snapshot over several records, one of them with a position worth
\* something and one with a transaction later than the cutoff.
C23_Witness ==
    /\ SnapshotAnswered
    /\ Len(cache) >= 2
    /\ \E k \in DOMAIN answer.result.positions :
           answer.result.positions[k].market_value # 0
    /\ \E i \in DOMAIN cache : \E j \in DOMAIN cache[i].transactions :
           cache[i].transactions[j].timestamp > answer.date
    /\ answer.result.cash # 0

\* Every timestamp of the sequence (of transactions, of log entries) is
\* later than T.
AllAfter(seq, T) == \A j \in DOMAIN seq : seq[j].timestamp > T

\* The snapshot shows nothing of the record: no position and no active
\* order.
NothingOf(state, r) ==
    /\ \A k \in DOMAIN r.positions : r.positions[k].trade_id # state.id
    /\ \A k \in DOMAIN r.active_orders : r.active_orders[k].trade_id # state.id

\* C24 as claimed: a record that has transactions, all of them later than
\* T, has no position and no active order in get_snapshot_at(T).
C24_NothingBeforeFirstTransaction ==
    SnapshotAnswered =>
        \A i \in DOMAIN cache :
            (cache[i].transactions # <<>> /\ AllAfter(cache[i].transactions, answer.date))
                => NothingOf(cache[i], answer.result)

\* C24 as amended: a record whose transactions and order log entries are
\* all later than T has no position and no active order in
\* get_snapshot_at(T).
C24_NothingBeforeFirstEntry ==
    SnapshotAnswered =>
        \A i \in DOMAIN cache :
            (/\ AllAfter(cache[i].transactions, answer.date)
             /\ AllAfter(cache[i].order_history, answer.date))
                => NothingOf(cache[i], answer.result)

\* A snapshot taken before the first transaction and the first log entry
\* of a record that has both, with another record in the snapshot.
C24_Witness ==
    /\ SnapshotAnswered
    /\ answer.result.positions # <<>>
    /\ \E i \in DOMAIN cache :
           /\ cache[i].transactions # <<>> /\ cache[i].order_history # <<>>
           /\ AllAfter(cache[i].transactions, answer.date)
           /\ AllAfter(cache[i].order_history, answer.date)

ClosedTradesAnswered == answer.query = "get_closed_trades"

\* The earliest and the latest timestamp among a record's transactions.
EarliestTs(txs) ==
    CHOOSE t \in {txs[j].timestamp : j \in DOMAIN txs} :
        \A j \in DOMAIN txs : t <= txs[j].timestamp

LatestTs(txs) ==
    CHOOSE t \in {txs[j].timestamp : j \in DOMAIN txs} :
        \A j \in DOMAIN txs : t >= txs[j].timestamp

\* The loaded records that are CLOSED or ARCHIVED and whose latest
\* transaction lies in the window, in the order of the cache.
Qualifying(start, end) ==
    SelectSeq(cache, LAMBDA st :
        /\ st.status \in {"CLOSED", "ARCHIVED"}
        /\ st.transactions # <<>>
        /\ start <= LatestTs(st.transactions)
        /\ LatestTs(st.transactions) <= end)

\* C25: get_closed_trades(start, end) returns one TradeResult for each
\* loaded record that is CLOSED or ARCHIVED and whose latest transaction
\* has its timestamp in [start, end], and none for any other record.
C25_ClosedTradesInWindow ==
    ClosedTradesAnswered =>
        LET q == Qualifying(answer.start, answer.end)
            r == answer.result
        IN  /\ Len(r) = Len(q)
            /\ \A k \in DOMAIN r :
                   /\ r[k].ticker = q[k].ticker
                   /\ r[k].exit_date = LatestTs(q[k].transactions)

\* A query that returned a finished trade and passed over an OPEN record
\* and a finished one outside the window.
C25_Witness ==
    /\ ClosedTradesAnswered
    /\ Len(answer.result) = 1
    /\ \E i \in DOMAIN cache :
           cache[i].status = "OPEN" /\ cache[i].transactions # <<>>
    /\ \E i \in DOMAIN cache :
           /\ cache[i].status \in {"CLOSED", "ARCHIVED"}
           /\ cache[i].transactions # <<>>
           /\ LatestTs(cache[i].transactions) > answer.end

\* The price of the transaction with timestamp t.
PriceAt(txs, t) ==
    LET j == CHOOSE k \in DOMAIN txs : txs[k].timestamp = t IN txs[j].price

\* C27: every TradeResult of get_closed_trades has as pnl_absolute the sum
\* of -(quantity * price) - commission over all transactions of its record,
\* as entry and exit date and price those of the record's earliest and
\* latest transaction, and as duration_days the whole days between the two.
C27_TradeResultFigures ==
    ClosedTradesAnswered =>
        LET q == Qualifying(answer.start, answer.end)
            r == answer.result
        IN  \A k \in DOMAIN r :
                LET txs == q[k].transactions
                    first == EarliestTs(txs)
                    final == LatestTs(txs)
                IN  /\ r[k].pnl_absolute = CashUpTo(txs, final)
                    /\ r[k].entry_date = first
                    /\ r[k].exit_date = final
                    /\ r[k].entry_price = PriceAt(txs, first)
                    /\ r[k].exit_price = PriceAt(txs, final)
                    /\ r[k].duration_days * TicksPerDay <= final - first
                    /\ (r[k].duration_days + 1) * TicksPerDay > final - first

\* A query that returned two finished trades, a long and a short, each
\* held for a day or more.
C27_Witness ==
    /\ ClosedTradesAnswered
    /\ Len(answer.result) = 2
    /\ \A k \in DOMAIN answer.result :
           answer.result[k].duration_days >= 1 /\ answer.result[k].pnl_absolute # 0
    /\ \E k \in DOMAIN answer.result : answer.result[k].entry_price < answer.result[k].exit_price
    /\ \E k \in DOMAIN answer.result : answer.result[k].entry_price > answer.result[k].exit_price

DailyAnswered == answer.query = "get_daily_snapshots"

\* C26: get_daily_snapshots(start, end) returns nothing when start is after
\* end, and otherwise one snapshot for every calendar day from the day of
\* start to the day of end, in ascending order, whatever the times of day
\* of start and end: the k-th is get_snapshot_at of the 23:59:59.999999 of
\* the k-th day.
C26_OneSnapshotPerDay ==
    DailyAnswered =>
        LET r == answer.result
            first == DayOf(answer.start)
            days == IF answer.start > answer.end THEN 0
                    ELSE DayOf(answer.end) - first + 1
        IN  /\ Len(r) = days
            /\ \A k \in DOMAIN r :
                   LET eod == (first + k - 1) * TicksPerDay + (TicksPerDay - 1)
                   IN  /\ r[k].timestamp = eod
                       /\ r[k] = PortfolioSnapshotAt(cache, eod, answer.prices)

\* The files under the storage root that load.
WellFormedFiles == {i \in DOMAIN trades_dir : trades_dir[i].ok}

\* C28: load_all_trades, on a first or a repeated call, ends with exactly
\* one loaded record for every well-formed file under the storage root,
\* whichever of the other files are malformed, and with no other record.
C28_LoadSkipsMalformedFiles ==
    [][DoLoadAllTrades =>
          /\ Len(cache') = Cardinality(WellFormedFiles)
          /\ \A i \in WellFormedFiles :
                 Cardinality({k \in DOMAIN cache' : cache'[k] = trades_dir[i].data}) = 1]_vars

\* Two records loaded from a storage root that has a malformed file between
\* their files.
C28_Witness ==
    /\ Len(cache) = 2
    /\ Len(trades_dir) = 3
    /\ ~trades_dir[2].ok
    /\ cache = <<trades_dir[1].data, trades_dir[3].data>>

(***************************************************************************)
(* Properties of calculate_metrics.                                        *)
(***************************************************************************)
MetricsAnswered == answer.query = "metrics"

\* The execution taken in last and the running position before it: the
\* loop state of calculate_metrics after the executions that precede it.
LastFill == transactions[Len(transactions)]
RunningBefore ==
    CalcFold(CalcStart, SubSeq(transactions, 1, Len(transactions) - 1))

OppositeSign(q, net) == (net > 0 /\ q < 0) \/ (net < 0 /\ q > 0)

\* (price - avg) * n for a long position, (avg - price) * n for a short one.
ClaimedPnl(net, avg, price, n) ==
    IF net > 0 THEN RMul(RSub(RInt(price), avg), RInt(n))
    ELSE RMul(RSub(avg, RInt(price)), RInt(n))

IsFlip ==
    /\ transactions # <<>>
    /\ OppositeSign(LastFill.quantity, RunningBefore.net_qty)
    /\ Abs(LastFill.quantity) > Abs(RunningBefore.net_qty)

IsReduction ==
    /\ transactions # <<>>
    /\ OppositeSign(LastFill.quantity, RunningBefore.net_qty)
    /\ Abs(LastFill.quantity) <= Abs(RunningBefore.net_qty)

FillsAre(qps) ==
    /\ Len(transactions) = Len(qps)
    /\ \A i \in DOMAIN qps :
           /\ transactions[i].quantity = qps[i][1]
           /\ transactions[i].price = qps[i][2]

\* C29: an execution of opposite sign to the running net quantity and of
\* larger magnitude realizes PnL on the whole position held, (price - avg)
\* * |net| for a long and (avg - price) * |net| for a short, and leaves the
\* signed residual as net quantity at the price of the execution; long 10 @
\* 100 then sell 20 @ 90 gives realized -100, net -10, avg 90.  Reported
\* figures are rounded as calculate_metrics rounds them (pnl to 2 places,
\* avg to 4).
C29_FlipRealizesWholePosition ==
    /\ (MetricsAnswered /\ IsFlip) =>
          LET b == RunningBefore
              t == LastFill
              m == answer.result
          IN  /\ m.realized_pnl =
                     Round(RAdd(b.realized_pnl,
                                ClaimedPnl(b.net_qty, b.avg_price, t.price,
                                           Abs(b.net_qty))), 100)
              /\ m.net_quantity = b.net_qty + t.quantity
              /\ m.avg_price = RInt(t.price)
    /\ (MetricsAnswered /\ FillsAre(<<<<10, 100>>, <<-20, 90>>>>)) =>
          /\ answer.result.realized_pnl = RInt(-100)
          /\ answer.result.net_quantity = -10
          /\ answer.result.avg_price = RInt(90)

\* A short position built at two prices has been flipped to a long one.
C29_Witness ==
    /\ MetricsAnswered
    /\ IsFlip
    /\ Len(transactions) = 3
    /\ RunningBefore.net_qty < 0
    /\ transactions[1].price # transactions[2].price
    /\ answer.result.net_quantity > 0

\* C30: an execution of opposite sign to the running net quantity whose
\* magnitude does not exceed it realizes PnL on the closed quantity only,
\* (price - avg) * closed for a long and (avg - price) * closed for a short,
\* and leaves the average price of a non-zero remainder as it was; buy 10 @
\* 100, buy 10 @ 110, sell 10 @ 120 gives realized 150, net 10, avg 105.
C30_ReductionRealizesClosedQuantity ==
    /\ (MetricsAnswered /\ IsReduction) =>
          LET b == RunningBefore
              t == LastFill
              m == answer.result
          IN  /\ m.realized_pnl =
                     Round(RAdd(b.realized_pnl,
                                ClaimedPnl(b.net_qty, b.avg_price, t.price,
                                           Abs(t.quantity))), 100)
              /\ m.net_quantity = b.net_qty + t.quantity
              /\ (m.net_quantity # 0) =>
                     (m.avg_price = Round(b.avg_price, 10000))
    /\ (MetricsAnswered
          /\ FillsAre(<<<<10, 100>>, <<10, 110>>, <<-10, 120>>>>)) =>
          /\ answer.result.realized_pnl = RInt(150)
          /\ answer.result.net_quantity = 10
          /\ answer.result.avg_price = RInt(105)

\* A long position built at two prices has been reduced but not closed.
C30_Witness ==
    /\ MetricsAnswered
    /\ IsReduction
    /\ Len(transactions) = 3
    /\ transactions[1].price # transactions[2].price
    /\ RunningBefore.net_qty > 0
    /\ answer.result.net_quantity > 0
    /\ answer.result.realized_pnl # RInt(0)

SameSign(q, net) == (net > 0 /\ q > 0) \/ (net < 0 /\ q < 0)

IsBuilding ==
    /\ transactions # <<>>
    /\ SameSign(LastFill.quantity, RunningBefore.net_qty)

\* C31: an execution of the same sign as a non-zero running net quantity
\* realizes no PnL and sets the average price to
\* (|net| * avg + |q| * price) / |net + q|, for long and short alike; buy
\* 10 @ 100 then buy 10 @ 110 gives net 20, avg 105.  Reported figures are
\* rounded as calculate_metrics rounds them (pnl to 2 places, avg to 4).
C31_BuildingAveragesPrice ==
    /\ (MetricsAnswered /\ IsBuilding) =>
          LET b == RunningBefore
              t == LastFill
              m == answer.result
          IN  /\ m.realized_pnl = Round(b.realized_pnl, 100)
              /\ m.net_quantity = b.net_qty + t.quantity
              /\ m.avg_price =
                     Round(RDiv(RAdd(RMul(RInt(Abs(b.net_qty)), b.avg_price),
                                     RInt(Abs(t.quantity) * t.price)),
                                RInt(Abs(b.net_qty + t.quantity))), 10000)
    /\ (MetricsAnswered /\ FillsAre(<<<<10, 100>>, <<10, 110>>>>)) =>
          /\ answer.result.realized_pnl = RInt(0)
          /\ answer.result.net_quantity = 20
          /\ answer.result.avg_price = RInt(105)

\* A short position with realized PnL behind it has been built up at another
\* price.
C31_Witness ==
    /\ MetricsAnswered
    /\ IsBuilding
    /\ Len(transactions) = 3
    /\ RunningBefore.net_qty < 0
    /\ RunningBefore.realized_pnl # RInt(0)
    /\ LastFill.price # transactions[2].price

MetricsAtAnswered == answer.query = "metrics_at"

RECURSIVE SumQuantities(_)
SumQuantities(txs) ==
    IF txs = <<>> THEN 0 ELSE Head(txs).quantity + SumQuantities(Tail(txs))

\* C32: the net_quantity calculate_metrics returns is the signed sum of the
\* quantities of the transactions (here in tenths of a share), whatever mix
\* of opening, building, reducing and flipping steps the list holds.
C32_NetQuantityIsSignedSum ==
    MetricsAtAnswered =>
        answer.result.net_quantity = SumQuantities(transactions)

\* A list that opens, flips and builds.
C32_Witness ==
    /\ MetricsAtAnswered
    /\ Len(transactions) = 3
    /\ transactions[1].quantity > 0
    /\ transactions[2].quantity < -transactions[1].quantity
    /\ transactions[3].quantity < 0
    /\ answer.result.net_quantity < 0

\* C33: for transactions whose quantities sum to zero, calculate_metrics
\* returns net_quantity 0, avg_price 0 and unrealized_pnl 0 at every
\* current_price.
C33_FlatHasNoAveragePrice ==
    (MetricsAtAnswered /\ SumQuantities(transactions) = 0) =>
        /\ answer.result.net_quantity = 0
        /\ answer.result.avg_price = RInt(0)
        /\ answer.result.unrealized_pnl = RInt(0)

MetricsNowAnswered == answer.query = "metrics_now"

\* C34: calculate_metrics is a function of its arguments only: a second
\* call on the same transactions, current_price and initial_risk returns
\* the same value in every field, days_held included, also on a later day
\* and for a position that is not flat; and a call leaves the transaction
\* list as it was.
C34_SameArgumentsSameMetrics ==
    [][/\ (MetricsNowAnswered /\ MetricsNowAnswered'
             /\ transactions' = transactions
             /\ initial_stop_price' = initial_stop_price) =>
           (/\ answer'.result = answer.result
            /\ answer'.days_held = answer.days_held)
       /\ (MetricsNowAnswered' /\ answer' # answer) =>
           (transactions' = transactions)]_vars

(***************************************************************************)
(* Further properties of the lifecycle.                                    *)
(***************************************************************************)
IsPrefix(s, t) == Len(s) <= Len(t) /\ SubSeq(t, 1, Len(s)) = s

\* C35: under enter, set_stop_loss, cancel_order, close and refresh the
\* transaction list and the order log only grow at the end: what they held
\* before a call is a prefix of what they hold after it, and a call that
\* adds a transaction is a refresh.
C35_ListsAppendOnly ==
    [][/\ IsPrefix(transactions, transactions')
       /\ IsPrefix(order_history, order_history')
       /\ (transactions' # transactions) => (last'.op = "refresh")]_vars

\* Both lists have grown more than once, the log under more than one kind
\* of call.
C35_Witness ==
    /\ Len(transactions) >= 2
    /\ Len(order_history) >= 3
    /\ \E i \in DOMAIN order_history : order_history[i].status = "SUBMITTED"
    /\ \E i \in DOMAIN order_history : order_history[i].status = "CANCELLED"
    /\ \E i \in DOMAIN order_history : order_history[i].status = "FILLED"

\* C36: in every state reached through enter, set_stop_loss, cancel_order,
\* close and refresh, a record in status CLOSED has net quantity zero and
\* tracks no active order.
C36_ClosedIsFlatAndClean ==
    (status = "CLOSED") =>
        /\ NetQuantity(transactions) = 0
        /\ DOMAIN active_orders = {}

\* The record has left PLANNED, the broker holds no active order for it, and
\* all the broker's fills, at least one, are ingested and sum to zero.
Settled ==
    /\ status # "PLANNED"
    /\ BrokerActive = {}
    /\ transactions # <<>>
    /\ TxIds(fills) \subseteq TxIds(transactions)
    /\ NetQuantity(transactions) = 0

\* C37: under repeated refresh calls a record that has left PLANNED reaches
\* CLOSED once the broker reports no active order for it and its ingested
\* fills, at least one, sum to zero, whether it was OPENING, OPEN or CLOSING
\* when the last fill arrived and also when one refresh ingested the entry
\* and the exit fills together.  Such a record has nothing more to come from
\* the broker, so it reaches CLOSED under refresh alone only if refresh
\* after refresh does not come to rest before CLOSED: whenever refresh has
\* been repeated until another one would change nothing, the record is
\* CLOSED.
C37_SettledRefreshedIsClosed ==
    (Settled /\ ~RefreshDue) => (status = "CLOSED")

\* The order ids a replay of the record's log shows as active at date.
ReplayedActive(date) ==
    {o.order_id : o \in Range(ActiveOrdersAt(order_history, date))}

\* C38: after every completed lifecycle operation the orders the record
\* tracks are the orders whose latest log entry is not terminal: a replay
\* of the log at the current time shows as active exactly the keys of the
\* active-orders map.
C38_TrackedOrdersAreLoggedActive ==
    DOMAIN active_orders = ReplayedActive(now)

RoleCount(role) ==
    Cardinality({o \in DOMAIN active_orders : active_orders[o] = role})

\* C39: in every state reached through enter, set_stop_loss, cancel_order,
\* close and refresh the record tracks at most one order with role STOP
\* and at most one with role EXIT.
C39_OneStopOneExit ==
    /\ RoleCount("STOP") <= 1
    /\ RoleCount("EXIT") <= 1

\* The quantity of the transaction with timestamp t.
QuantityAt(txs, t) ==
    LET j == CHOOSE k \in DOMAIN txs : txs[k].timestamp = t IN txs[j].quantity

\* C40: every TradeResult of get_closed_trades has direction LONG when the
\* earliest transaction of its record is a buy, and direction SHORT when
\* the earliest transaction is a sell that later buys covered.
C40_DirectionOfFirstFill ==
    ClosedTradesAnswered =>
        LET q == Qualifying(answer.start, answer.end)
            r == answer.result
        IN  \A k \in DOMAIN r :
                LET txs == q[k].transactions
                    opened == QuantityAt(txs, EarliestTs(txs))
                IN  /\ opened > 0 => r[k].direction = "LONG"
                    /\ (opened < 0 /\ \E j \in DOMAIN txs : txs[j].quantity > 0)
                           => r[k].direction = "SHORT"

=============================================================================
